---- MODULE Spec2Model ----
(***************************************************************************)
(* Model of agent-top's event correlation, timeline builder and detail     *)
(* panel navigation (src/agent_top/__init__.py).                           *)
(*                                                                         *)
(* Timestamps are the strings the event store hands out.  The code orders  *)
(* them with Python string comparison and, in the Task pairing, parses     *)
(* them.  A timestamp is modelled by an integer code whose order is the    *)
(* string order: Null (Python None), Empty (""), an instant 1..n (a        *)
(* well-formed 'YYYY-MM-DD HH:MM:SS' string, n seconds after an origin)    *)
(* and Garbled (a non-empty string that does not parse and sorts after     *)
(* every well-formed one, such as "n/a").                                  *)
(***************************************************************************)
EXTENDS Integers, Sequences, FiniteSets, TLC

VARIABLES
    session_prompts,    \* cache["session_prompts"][sid]: newest first
    session_tools,      \* cache["session_tools"][sid]: oldest first
    r_agents,           \* cache["r_agents"]: running agents, by started_at
    c_agents,           \* cache["c_agents"]: completed agents, by stopped_at desc
    items,              \* the rows draw() lists in the primary panel, from the cache
    visible_items,      \* state["visible_items"]
    selected,           \* state["selected"]
    focus,              \* state["focus"]
    viz_mode,           \* state["viz_mode"]
    game_of_life,       \* state["game_of_life"]
    tree_cursor,        \* state["tree_cursor"]
    detail_scroll,      \* state["detail_scroll"]
    expanded_tool,      \* state["_expanded_tool"]
    collapsed_prompts,  \* state["_collapsed_prompts"]
    collapsed_agents,   \* state["_collapsed_agents"]
    tree_timeline,      \* state["_tree_timeline"] (state["_tree_len"] is its length)
    layout,             \* the terminal size class draw() sees
    panel_h,            \* rows the terminal gives the detail panel
    pc,                 \* position in the main loop / in a function application
    result,             \* value returned by the function a specification applies
    hist,               \* what the last key did: a collapse toggle, a focus switch (observation only)
    now_utc,            \* datetime.now(timezone.utc) as the gantt view reads it
    prompt_table,       \* ccnotify.db, table prompt: rows in id order
    agent_table,        \* ccnotify.db, table agent: rows in id order
    db_now,             \* CURRENT_TIMESTAMP of the store, in whole seconds
    notified            \* subtitle of the notification the last hook run sent, "" for none

vars == <<session_prompts, session_tools, r_agents, c_agents, items, visible_items,
          selected, focus, viz_mode, game_of_life, tree_cursor, detail_scroll,
          expanded_tool, collapsed_prompts, collapsed_agents, tree_timeline,
          layout, panel_h, pc, result, hist, now_utc,
          prompt_table, agent_table, db_now, notified>>

cacheVars == <<session_prompts, session_tools, r_agents, c_agents, items>>
uiVars == <<visible_items, selected, focus, viz_mode, game_of_life, tree_cursor,
            detail_scroll, expanded_tool, collapsed_prompts, collapsed_agents,
            tree_timeline, layout, panel_h>>
\* the event store the hook handler (src/ccnotify.py) writes
storeVars == <<prompt_table, agent_table, db_now, notified>>

\* the store before any hook has run
NoStore ==
    /\ prompt_table = <<>>
    /\ agent_table = <<>>
    /\ db_now = 1
    /\ notified = ""

----------------------------------------------------------------------------
(* Timestamp codes *)

Null == -1
Empty == 0
Garbled == 99

\* bool(ts): None and "" are falsy
Truthy(ts) == ts # Null /\ ts # Empty

\* datetime.fromisoformat / strptime succeed on well-formed strings only
Parses(ts) == ts > Empty /\ ts < Garbled

----------------------------------------------------------------------------
(* Generic sequence helpers *)

RECURSIVE SeqToSet(_)
SeqToSet(s) == IF s = <<>> THEN {} ELSE {Head(s)} \cup SeqToSet(Tail(s))

SeqsUpTo(S, n) == UNION {[1..k -> S] : k \in 0..n}

\* list.sort / sorted: stable insertion by key; Key maps an element to its code
RECURSIVE InsertByKey(_, _, _)
InsertByKey(x, kx, s) ==
    \* s is a sequence of <<key, elem>>; x goes after every element with key <= kx
    IF s = <<>> THEN << <<kx, x>> >>
    ELSE IF Head(s)[1] <= kx THEN << Head(s) >> \o InsertByKey(x, kx, Tail(s))
    ELSE << <<kx, x>> >> \o s

RECURSIVE SortPairs(_)
SortPairs(ps) ==
    \* ps: sequence of <<key, elem>>
    IF ps = <<>> THEN <<>>
    ELSE LET rest == SortPairs(SubSeq(ps, 1, Len(ps) - 1))
             last == ps[Len(ps)]
         IN InsertByKey(last[2], last[1], rest)

\* sorting raises TypeError when two keys are compared and one of them is None
SortRaises(keys) == Len(keys) >= 2 /\ \E i \in 1..Len(keys) : keys[i] = Null

----------------------------------------------------------------------------
(* Text helpers: str.lower() and the substring test, over the texts used *)

Lower(s) ==
    CASE s = "Explore" -> "explore"
      [] s = "Explore the repo" -> "explore the repo"
      [] OTHER -> s

Contains(hay, needle) ==
    \/ needle = hay
    \/ needle = ""
    \/ <<hay, needle>> \in {<<"explore the repo", "explore">>}

\* TOOL_NAMES.get(name, "") for the tool names used; other names map to themselves
TOOL_NAMES(name) ==
    CASE name = "Task" -> "Spawn agent"
      [] name = "Read" -> "Read file"
      [] OTHER -> name

\* friendly_tool, for labels without "/"
friendly_tool(name, label) ==
    IF label # "" /\ label # name THEN label ELSE TOOL_NAMES(name)

----------------------------------------------------------------------------
(* _match_tools_to_agents *)

\* line 1084: agents of the target session, in the order given
SessionAgents(agents, sid) ==
    SelectSeq(agents, LAMBDA a : a.session_id = sid)

\* line 1097: sorted(session_agents, key=started_at)
sorted_agents(session_agents) ==
    LET ps == [i \in 1..Len(session_agents) |->
                  <<session_agents[i].started_at, session_agents[i]>>]
        sp == SortPairs(ps)
    IN [i \in 1..Len(sp) |-> sp[i][2]]

\* line 1095: the Task events, in input order
task_pool(tools) == SelectSeq(tools, LAMBDA t : t.tool_name = "Task")

\* line 1119
type_bonus(a_type, text) ==
    IF a_type # "" /\ Contains(Lower(text), Lower(a_type)) THEN 1 ELSE 0

\* tuple comparison score < best_score
ScoreLess(s, b) == s[1] < b[1] \/ (s[1] = b[1] /\ s[2] < b[2])

Abs(n) == IF n < 0 THEN -n ELSE n

\* lines 1103: best_score before any candidate was seen
InitialBest == [task |-> 0, score |-> <<6, 0>>]

\* the inner loop with the used_tasks test left out
TaskStep_ignore_used(pool, i, used, agent, best) ==
    LET tt == pool[i]
        a_start == agent.started_at
        delta == Abs(a_start - tt.ts)
        score == <<delta, 0 - type_bonus(agent.agent_type, tt.text)>>
    IN IF ~Truthy(tt.ts) \/ ~Truthy(a_start) THEN best
       ELSE IF tt.ts > a_start THEN best
       ELSE IF ~Parses(tt.ts) \/ ~Parses(a_start) THEN best
       ELSE IF delta >= best.score[1] /\ best.task # 0 THEN best
       ELSE IF ScoreLess(score, best.score) THEN [task |-> i, score |-> score]
       ELSE best

\* lines 1105-1123: one iteration of the inner loop, for pool position i
TaskStep(pool, i, used, agent, best) ==
    LET tt == pool[i]
        a_start == agent.started_at
        delta == Abs(a_start - tt.ts)
        score == <<delta, 0 - type_bonus(agent.agent_type, tt.text)>>
    IN IF i \in used THEN best
       ELSE IF ~Truthy(tt.ts) \/ ~Truthy(a_start) THEN best
       ELSE IF tt.ts > a_start THEN best
       ELSE IF ~Parses(tt.ts) \/ ~Parses(a_start) THEN best
       ELSE IF delta >= best.score[1] /\ best.task # 0 THEN best
       ELSE IF ScoreLess(score, best.score) THEN [task |-> i, score |-> score]
       ELSE best

RECURSIVE ScanTasks(_, _, _, _, _)
ScanTasks(pool, i, used, agent, best) ==
    IF i > Len(pool) THEN best
    ELSE ScanTasks(pool, i + 1, used, agent, TaskStep(pool, i, used, agent, best))

\* lines 1099-1127: the outer loop; acc = [used, labels, claims]
\*   used   : pool positions already claimed (used_tasks)
\*   labels : set of <<agent_id, text>> (agent_labels)
\*   claims : sequence of [agent_id, task, score, used_before], one per claim, in order
RECURSIVE PairTasks(_, _, _, _)
PairTasks(pool, sorted, k, acc) ==
    IF k > Len(sorted) THEN acc
    ELSE LET agent == sorted[k]
             best == ScanTasks(pool, 1, acc.used, agent, InitialBest)
         IN IF best.task = 0 THEN PairTasks(pool, sorted, k + 1, acc)
            ELSE PairTasks(pool, sorted, k + 1,
                     [used |-> acc.used \cup {best.task},
                      labels |-> acc.labels \cup {<<agent.agent_id, pool[best.task].text>>},
                      claims |-> Append(acc.claims,
                                    [agent |-> agent, task |-> best.task,
                                     used_before |-> acc.used])])

\* the window test with the stop instant left out (t_ts < a_stop)
InWindow_halfopen(t_ts, agent) ==
    t_ts >= agent.started_at
        /\ (agent.stopped_at = Null \/ t_ts < agent.stopped_at)

\* line 1141: the window test (strings compared as strings)
InWindow(t_ts, agent) ==
    t_ts >= agent.started_at
        /\ (agent.stopped_at = Null \/ t_ts <= agent.stopped_at)

\* lines 1135-1142
candidates(t, session_agents) ==
    SelectSeq(session_agents,
              LAMBDA a : Truthy(a.started_at) /\ InWindow(t.ts, a))

\* the cwd preference left out: no candidate counts as a cwd match
cwd_match_none(cands, t_cwd) ==
    SelectSeq(cands, LAMBDA a : FALSE)

\* line 1147
cwd_match(cands, t_cwd) ==
    SelectSeq(cands, LAMBDA a : a.cwd # "" /\ a.cwd = t_cwd)

\* line 1152: max(candidates, key=started_at) returns the first maximal element
MostRecent(cands) ==
    LET i == CHOOSE i \in 1..Len(cands) :
                 /\ \A j \in 1..Len(cands) : cands[j].started_at <= cands[i].started_at
                 /\ \A j \in 1..(i - 1) : cands[j].started_at < cands[i].started_at
    IN cands[i]

\* agent_tools[aid].append(t)
AppendTo(acc, aid, t) ==
    [acc EXCEPT !.agent_tools = [@ EXCEPT ![aid] = Append(@, t)]]

\* lines 1143-1155 with more than one branch taken: the tool is appended both to
\* the cwd match and to the most recently started candidate
AssignTool_both(acc, t, session_agents) ==
    LET cands == candidates(t, session_agents)
        cm == cwd_match(cands, t.cwd)
    IN IF t.tool_name = "Task" THEN acc
       ELSE IF Len(cands) = 1 THEN AppendTo(acc, cands[1].agent_id, t)
       ELSE IF Len(cands) > 1
            THEN IF Len(cm) = 1
                 THEN AppendTo(AppendTo(acc, cm[1].agent_id, t),
                               MostRecent(cands).agent_id, t)
                 ELSE AppendTo(acc, MostRecent(cands).agent_id, t)
       ELSE [acc EXCEPT !.unmatched = Append(@, t)]

\* lines 1130-1155: one iteration of the assignment loop; acc = [agent_tools, unmatched]
AssignTool(acc, t, session_agents) ==
    LET cands == candidates(t, session_agents)
        cm == cwd_match(cands, t.cwd)
    IN IF t.tool_name = "Task" THEN acc
       ELSE IF Len(cands) = 1 THEN AppendTo(acc, cands[1].agent_id, t)
       ELSE IF Len(cands) > 1
            THEN IF Len(cm) = 1 THEN AppendTo(acc, cm[1].agent_id, t)
                 ELSE AppendTo(acc, MostRecent(cands).agent_id, t)
       ELSE [acc EXCEPT !.unmatched = Append(@, t)]

RECURSIVE AssignTools(_, _, _, _)
AssignTools(acc, tools, k, session_agents) ==
    IF k > Len(tools) THEN acc
    ELSE AssignTools(AssignTool(acc, tools[k], session_agents), tools, k + 1,
                     session_agents)

\* line 1141 raises TypeError when the tool's ts is None and is compared
WindowRaises(t, session_agents) ==
    /\ t.tool_name # "Task"
    /\ t.ts = Null
    /\ \E i \in 1..Len(session_agents) : Truthy(session_agents[i].started_at)

\* what the caller sees when an exception leaves the function
Raised == [raised |-> TRUE, agent_tools |-> <<>>, agent_labels |-> {},
           unmatched |-> <<>>, claims |-> <<>>, pool |-> <<>>]

\* lines 1081-1157.  claims and pool record the Task pairing for observation.
_match_tools_to_agents(all_events, agents, target) ==
    LET tools == SelectSeq(all_events, LAMBDA t : t.kind = "tool")
        session_agents == SessionAgents(agents, target)
        ids == {session_agents[i].agent_id : i \in 1..Len(session_agents)}
    IN IF session_agents = <<>>
       THEN [raised |-> FALSE, agent_tools |-> <<>>, agent_labels |-> {},
             unmatched |-> tools, claims |-> <<>>, pool |-> <<>>]
       ELSE IF SortRaises([i \in 1..Len(session_agents) |-> session_agents[i].started_at])
       THEN Raised
       ELSE IF \E i \in 1..Len(tools) : WindowRaises(tools[i], session_agents)
       THEN Raised
       ELSE LET pool == task_pool(tools)
                paired == PairTasks(pool, sorted_agents(session_agents), 1,
                                    [used |-> {}, labels |-> {}, claims |-> <<>>])
                assigned == AssignTools([agent_tools |-> [aid \in ids |-> <<>>],
                                         unmatched |-> <<>>],
                                        tools, 1, session_agents)
            IN [raised |-> FALSE,
                agent_tools |-> assigned.agent_tools,
                agent_labels |-> paired.labels,
                unmatched |-> assigned.unmatched,
                claims |-> paired.claims,
                pool |-> pool]

----------------------------------------------------------------------------
(* Input domains *)

MaxTools == 2
MaxAgents == 2

TaskStamps == {Empty, 1, 2}
ToolStamps == {Null, Empty, 2, 8, Garbled}
RunningStarts == {Null, Empty, 2, 8}
CompletedStarts == {2, 8, Garbled}
AgentStops == {2, 8}
Cwds == {"", "/a"}
TaskLabels == {"Explore the repo", "fix tests"}

\* rows of table tool_event as query_db selects them (lines 289-297)
ToolRows ==
    [tool_name : {"Task"}, tool_label : TaskLabels, created_at : TaskStamps, cwd : {""}]
    \cup [tool_name : {"Read"}, tool_label : {""}, created_at : ToolStamps, cwd : Cwds]

\* rows of table agent as query_db selects them (lines 238-254), before ids are
\* given; session 1 is the one shown, and one agent row of session 2 stands for
\* the agents of every other session
RunningRows ==
    [agent_type : {"Explore"}, session_id : {1}, cwd : Cwds,
     started_at : RunningStarts, stopped_at : {Null}]
    \cup [agent_type : {"Explore"}, session_id : {2}, cwd : {"/a"},
          started_at : {2}, stopped_at : {Null}]
CompletedRows ==
    [agent_type : {"Explore"}, session_id : {1}, cwd : Cwds,
     started_at : CompletedStarts, stopped_at : AgentStops]

\* ORDER BY created_at (NULL sorts first, then text in byte order)
ByCreatedAt(s) == \A i \in 1..(Len(s) - 1) : s[i].created_at <= s[i + 1].created_at
\* ORDER BY started_at ASC
ByStartedAt(s) == \A i \in 1..(Len(s) - 1) : s[i].started_at <= s[i + 1].started_at
\* ORDER BY stopped_at DESC
ByStoppedAtDesc(s) == \A i \in 1..(Len(s) - 1) : s[i].stopped_at >= s[i + 1].stopped_at

\* agent_id is UNIQUE in the table: number the rows
WithIds(rows, base) ==
    [i \in 1..Len(rows) |->
        [agent_id |-> base + i, agent_type |-> rows[i].agent_type,
         session_id |-> rows[i].session_id, cwd |-> rows[i].cwd,
         started_at |-> rows[i].started_at, stopped_at |-> rows[i].stopped_at]]

\* ORDER BY created_at DESC ... reversed: oldest first
ToolLists == {s \in SeqsUpTo(ToolRows, MaxTools) : ByCreatedAt(s)}
\* ORDER BY started_at ASC
RunningLists == {s \in SeqsUpTo(RunningRows, MaxAgents) : ByStartedAt(s)}
\* ORDER BY stopped_at DESC
CompletedLists == {s \in SeqsUpTo(CompletedRows, MaxAgents) : ByStoppedAtDesc(s)}

----------------------------------------------------------------------------
(* The session the detail panel shows (lines 1171-1176) *)

NoSid == 0

sel_item(vis, sel) == IF 0 <= sel /\ sel < Len(vis) THEN <<vis[sel + 1]>> ELSE <<>>

target_sid(vis, sel) ==
    IF sel_item(vis, sel) # <<>> /\ sel_item(vis, sel)[1].session_id # NoSid
    THEN sel_item(vis, sel)[1].session_id
    ELSE IF vis # <<>> THEN vis[1].session_id
    ELSE NoSid

\* lines 1182-1205: the events handed to the correlator
PromptEvents(prompts) ==
    [i \in 1..Len(prompts) |->
        [kind |-> "prompt", ts |-> prompts[i].created_at, text |-> prompts[i].prompt,
         tool_name |-> "", cwd |-> "", src |-> i]]

ToolEvents(tools) ==
    [i \in 1..Len(tools) |->
        [kind |-> "tool", ts |-> tools[i].created_at,
         text |-> friendly_tool(tools[i].tool_name, tools[i].tool_label),
         tool_name |-> tools[i].tool_name, cwd |-> tools[i].cwd, src |-> i]]

\* lines 1186-1187: prompts whose text starts with "<" are left out
ShownPrompts(prompts) == SelectSeq(PromptEvents(prompts), LAMBDA p : p.text # "<task-notification>")

timeline_events(prompts, tools) == ShownPrompts(prompts) \o ToolEvents(tools)

all_agents == r_agents \o c_agents

----------------------------------------------------------------------------
(* _draw_viz_tree: the timeline builder *)

\* ev.get("_prompt_key") of a node that is not a prompt
NoKey == -2
\* _agent_id of a node that is not an agent group
NoAgent == 0

\* line 1208: at most this many completed agents get a group
MaxShownCompleted == 5

FirstN(s, n) == IF Len(s) <= n THEN s ELSE SubSeq(s, 1, n)

\* lines 1207-1208
children_of(r, sid) == SelectSeq(r, LAMBDA a : a.session_id = sid /\ a.agent_type # "")
completed_of(c, sid) ==
    FirstN(SelectSeq(c, LAMBDA a : a.session_id = sid /\ a.agent_type # ""),
           MaxShownCompleted)

\* line 1220: agent_labels.get(agent_id, agent_type)
raw_label(labels, a) ==
    IF \E l \in labels : l[1] = a.agent_id
    THEN (CHOOSE l \in labels : l[1] = a.agent_id)[2]
    ELSE a.agent_type

\* lines 1221-1237: the ordinal of agent i among the agents with its label, 0 when
\* the label is not shared (no "#n" suffix)
label_seq(labels, list, i) ==
    LET lbl(k) == raw_label(labels, list[k])
        same == {k \in 1..Len(list) : lbl(k) = lbl(i)}
    IN IF Cardinality(same) > 1
       THEN Cardinality({k \in same : k <= i})
       ELSE 0

\* timeline nodes: one record shape for the three kinds
PromptNode(ev) ==
    [kind |-> "prompt", ts |-> ev.ts, text |-> ev.text, src |-> ev.src,
     agent_id |-> NoAgent, seq |-> 0, children |-> <<>>, child_count |-> 0,
     collapsed |-> FALSE, under_agent |-> FALSE, group |-> -1,
     prompt_key |-> NoKey, running |-> FALSE]

ToolNode(ev) ==
    [kind |-> "tool", ts |-> ev.ts, text |-> ev.text, src |-> ev.src,
     agent_id |-> NoAgent, seq |-> 0, children |-> <<>>, child_count |-> 0,
     collapsed |-> FALSE, under_agent |-> FALSE, group |-> -1,
     prompt_key |-> NoKey, running |-> FALSE]

\* lines 1225-1246
AgentGroupNode(a, label, seq, a_tools, running) ==
    [kind |-> "agent_group", ts |-> a.started_at, text |-> label, src |-> 0,
     agent_id |-> a.agent_id, seq |-> seq,
     children |-> [k \in 1..Len(a_tools) |-> ToolNode(a_tools[k])],
     child_count |-> Len(a_tools),
     collapsed |-> FALSE, under_agent |-> FALSE, group |-> -1,
     prompt_key |-> NoKey, running |-> running]

\* line 1227: agent_tools.get(aid, [])
tools_of(m, aid) == IF aid \in DOMAIN m.agent_tools THEN m.agent_tools[aid] ELSE <<>>

\* lines 1214-1246
agent_group_events(m, kids, done) ==
    LET list == kids \o done
    IN [i \in 1..Len(list) |->
          AgentGroupNode(list[i], raw_label(m.agent_labels, list[i]),
                         label_seq(m.agent_labels, list, i),
                         tools_of(m, list[i].agent_id), i <= Len(kids))]

\* lines 1248-1256, before the sort
merged_unsorted(events, m, groups) ==
    LET ps == SelectSeq(events, LAMBDA e : e.kind = "prompt")
    IN [i \in 1..Len(ps) |-> PromptNode(ps[i])]
       \o [i \in 1..Len(m.unmatched) |-> ToolNode(m.unmatched[i])]
       \o groups

\* line 1257: merged.sort(key=ts), stable
SortByTs(nodes) ==
    LET sp == SortPairs([i \in 1..Len(nodes) |-> <<nodes[i].ts, nodes[i]>>])
    IN [i \in 1..Len(sp) |-> sp[i][2]]

\* lines 1259-1272: groups as a sequence of [prompt, kids]; prompt is <<>> for the
\* headless group of the events before the first prompt
RECURSIVE GroupByPrompt(_, _, _, _)
GroupByPrompt(merged, k, cur, acc) ==
    IF k > Len(merged)
    THEN IF cur.prompt # <<>> \/ cur.kids # <<>> THEN Append(acc, cur) ELSE acc
    ELSE IF merged[k].kind = "prompt"
         THEN GroupByPrompt(merged, k + 1, [prompt |-> <<merged[k]>>, kids |-> <<>>],
                  IF cur.prompt # <<>> \/ cur.kids # <<>> THEN Append(acc, cur) ELSE acc)
         ELSE GroupByPrompt(merged, k + 1,
                  [cur EXCEPT !.kids = Append(@, merged[k])], acc)

\* the groups left in the order the grouping gives them, oldest first
Reverse_none(s) == s

\* line 1274
Reverse(s) == [i \in 1..Len(s) |-> s[Len(s) + 1 - i]]

\* lines 1285-1291
RECURSIVE descendant_count(_)
descendant_count(kids) ==
    IF kids = <<>> THEN 0
    ELSE (IF Head(kids).kind = "agent_group" THEN 1 + Head(kids).child_count ELSE 1)
         + descendant_count(Tail(kids))

\* lines 1296-1306: what one child of an expanded prompt contributes
RECURSIVE ExpandKids(_, _)
ExpandKids(kids, ca) ==
    IF kids = <<>> THEN <<>>
    ELSE LET c == Head(kids)
         IN (IF c.kind = "agent_group"
             THEN IF c.agent_id \in ca
                  THEN << [c EXCEPT !.collapsed = TRUE] >>
                  ELSE <<c>> \o [k \in 1..Len(c.children) |->
                                    [c.children[k] EXCEPT !.under_agent = TRUE]]
             ELSE <<c>>)
            \o ExpandKids(Tail(kids), ca)

\* lines 1280-1308: what one group contributes
ExpandGroup(g, cp, ca) ==
    IF g.prompt # <<>>
    THEN LET p == g.prompt[1]
             head == [p EXCEPT !.prompt_key = p.ts,
                               !.child_count = descendant_count(g.kids),
                               !.collapsed = (p.ts \in cp)]
         IN IF p.ts \in cp THEN <<head>> ELSE <<head>> \o ExpandKids(g.kids, ca)
    ELSE g.kids

RECURSIVE ExpandGroups(_, _, _)
ExpandGroups(groups, cp, ca) ==
    IF groups = <<>> THEN <<>>
    ELSE ExpandGroup(Head(groups), cp, ca) \o ExpandGroups(Tail(groups), cp, ca)

\* lines 1310-1315: the index of the prompt group each node is tagged with
TagGroups(tl) ==
    [i \in 1..Len(tl) |->
        [tl[i] EXCEPT !.group =
            Cardinality({k \in 1..i : tl[k].kind = "prompt"}) - 1]]

\* lines 1181-1319.  raised = TRUE stands for an exception leaving the function.
build_timeline(prompts, tools, r, c, sid, cp, ca) ==
    LET events == timeline_events(prompts, tools)
        m == _match_tools_to_agents(events, r \o c, sid)
        groups == agent_group_events(m, children_of(r, sid), completed_of(c, sid))
        merged == merged_unsorted(events, m, groups)
    IN IF m.raised THEN [raised |-> TRUE, timeline |-> <<>>]
       ELSE IF SortRaises([i \in 1..Len(merged) |-> merged[i].ts])
       THEN [raised |-> TRUE, timeline |-> <<>>]
       ELSE [raised |-> FALSE,
             timeline |-> TagGroups(ExpandGroups(
                              Reverse(GroupByPrompt(SortByTs(merged), 1,
                                          [prompt |-> <<>>, kids |-> <<>>], <<>>)),
                              cp, ca))]

\* height of an expanded tool's detail block, as the scroll estimate takes it (line 1336)
ExpansionHeight == 12

\* the cursor taken as it is, whatever the timeline's length
clamp_cursor_none(cursor, len) == cursor

\* lines 1329-1332
clamp_cursor(cursor, len) ==
    IF cursor >= len THEN (IF len - 1 > 0 THEN len - 1 ELSE 0) ELSE cursor

\* lines 1335-1337
visible_rows(h, expanded_idx, len) ==
    LET expansion_height == IF 0 <= expanded_idx /\ expanded_idx < len
                            THEN ExpansionHeight ELSE 0
    IN IF h - expansion_height > 1 THEN h - expansion_height ELSE 1

\* the window moved so that the cursor is on its last row, wherever it was
adjust_scroll_bottom(scroll, cursor, rows) ==
    IF cursor - rows + 1 > 0 THEN cursor - rows + 1 ELSE 0

\* lines 1338-1343
adjust_scroll(scroll, cursor, rows) ==
    IF cursor < scroll THEN cursor
    ELSE IF cursor >= scroll + rows THEN cursor - rows + 1
    ELSE scroll

----------------------------------------------------------------------------
(* Specification SpecMatch: _match_tools_to_agents applied to drawn inputs *)

NoResult == [raised |-> FALSE, agent_tools |-> <<>>, agent_labels |-> {},
             unmatched |-> <<>>, claims |-> <<>>, pool |-> <<>>]

InitMatch ==
    /\ session_prompts = <<>>
    /\ session_tools \in ToolLists
    /\ \E r \in RunningLists, c \in CompletedLists :
          /\ Len(r) + Len(c) <= MaxAgents
          /\ r_agents = WithIds(r, 0)
          /\ c_agents = WithIds(c, Len(r))
    /\ items = << [session_id |-> 1, is_stat |-> FALSE] >>
    /\ visible_items = items
    /\ selected = 0
    /\ focus = "right"
    /\ viz_mode = 0
    /\ game_of_life = FALSE
    /\ tree_cursor = 0
    /\ detail_scroll = 0
    /\ expanded_tool = -1
    /\ collapsed_prompts = {}
    /\ collapsed_agents = {}
    /\ tree_timeline = <<>>
    /\ layout = "wide"
    /\ panel_h = 1
    /\ pc = "input"
    /\ result = NoResult
    /\ hist = <<>>
    /\ now_utc = 0
    /\ NoStore

\* line 1212
Match ==
    /\ pc = "input"
    /\ result' = _match_tools_to_agents(timeline_events(session_prompts, session_tools),
                                        all_agents, target_sid(visible_items, selected))
    /\ pc' = "matched"
    /\ UNCHANGED <<cacheVars, uiVars, hist, now_utc, storeVars>>

NextMatch == Match

SpecMatch == InitMatch /\ [][NextMatch]_vars

----------------------------------------------------------------------------
(* Claims about the correlator, checked under SpecMatch *)

Matched == pc = "matched" /\ ~result.raised

\* the inputs of the call whose result is in `result`
InTools == ToolEvents(session_tools)
InAgents == SessionAgents(all_agents, target_sid(visible_items, selected))
InIds == {InAgents[i].agent_id : i \in 1..Len(InAgents)}
NonTask == {t \in SeqToSet(InTools) : t.tool_name # "Task"}
TaskEvents == {t \in SeqToSet(InTools) : t.tool_name = "Task"}

OwnedBy(aid) == SeqToSet(result.agent_tools[aid])
UnmatchedSet == SeqToSet(result.unmatched)
AllOwned == UNION {OwnedBy(aid) : aid \in DOMAIN result.agent_tools}

\* no event occurs twice in a list, and no event occurs in two lists
NoRepeat(s) == \A i, j \in 1..Len(s) : i # j => s[i] # s[j]
Disjoint ==
    /\ NoRepeat(result.unmatched)
    /\ \A aid \in DOMAIN result.agent_tools :
          /\ NoRepeat(result.agent_tools[aid])
          /\ OwnedBy(aid) \cap UnmatchedSet = {}
          /\ \A bid \in DOMAIN result.agent_tools :
                aid # bid => OwnedBy(aid) \cap OwnedBy(bid) = {}

ClaimedTasks == {result.pool[result.claims[k].task] : k \in 1..Len(result.claims)}

\* C2 as stated: a Task event that no agent claimed is in the unmatched list
\* (a standalone leaf of the timeline), whether or not the session has agents.
C2_UnclaimedTaskIsLeaf ==
    Matched => \A t \in TaskEvents \ ClaimedTasks : t \in UnmatchedSet

\* the score the pairing gives pool position j for an agent
PairScore(agent, j) ==
    <<Abs(agent.started_at - result.pool[j].ts),
      0 - type_bonus(agent.agent_type, result.pool[j].text)>>

\* pool positions an agent could have claimed: unclaimed, at or before its start
Claimable(c) ==
    {j \in 1..Len(result.pool) :
        /\ j \notin c.used_before
        /\ Parses(result.pool[j].ts)
        /\ result.pool[j].ts <= c.agent.started_at}

\* C3 as stated: when an agent claims a Task, no other unclaimed Task at or
\* before the agent's start has a smaller (time_delta, -type_match_bonus).
C3_BestTaskWins ==
    Matched =>
        \A k \in 1..Len(result.claims) :
            LET c == result.claims[k]
            IN \A j \in Claimable(c) :
                  ~ScoreLess(PairScore(c.agent, j), PairScore(c.agent, c.task))

\* closed window [started_at, stopped_at], in string order
InClosedWindow(ts, a) ==
    /\ Truthy(a.started_at)
    /\ ts # Null
    /\ a.started_at <= ts
    /\ (a.stopped_at = Null \/ ts <= a.stopped_at)

\* C4 as stated: a tool event at an agent's stopped_at is not assigned to that
\* agent (windows are half-open).
C4_HalfOpenWindow ==
    Matched =>
        \A t \in NonTask : \A i \in 1..Len(InAgents) :
            t.ts = InAgents[i].stopped_at => t \notin OwnedBy(InAgents[i].agent_id)

\* C4 amended: windows are closed, [started_at, stopped_at]: a tool event at
\* exactly an agent's stopped_at, like one at exactly its started_at, is inside
\* the window, and is assigned to that agent when no other agent's window
\* contains it.
C4_ClosedWindow ==
    Matched =>
        \A t \in NonTask : \A i \in 1..Len(InAgents) :
            LET a == InAgents[i]
            IN ( /\ t.ts = a.stopped_at \/ t.ts = a.started_at
                 /\ InClosedWindow(t.ts, a)
                 /\ \A j \in 1..Len(InAgents) : j # i => ~InClosedWindow(t.ts, InAgents[j]) )
               => t \in OwnedBy(a.agent_id)

C4_Witness ==
    /\ Matched
    /\ \E t \in NonTask : \E i \in 1..Len(InAgents) :
          /\ t.ts = InAgents[i].stopped_at
          /\ InAgents[i].started_at < t.ts
          /\ t \in OwnedBy(InAgents[i].agent_id)

\* the agents whose window contains the event
Spanning(t) == {i \in 1..Len(InAgents) : InClosedWindow(t.ts, InAgents[i])}

\* C5 as stated: when several agents' windows contain the event and exactly one
\* of them has cwd equal to the event's cwd, the event is assigned to that agent.
C5_CwdEqualWins ==
    Matched =>
        \A t \in NonTask :
            LET same == {i \in Spanning(t) : InAgents[i].cwd = t.cwd}
            IN (Cardinality(Spanning(t)) > 1 /\ Cardinality(same) = 1)
               => \A i \in same : t \in OwnedBy(InAgents[i].agent_id)

\* C5 amended: when several agents' windows contain the event and exactly one
\* of them has a non-empty cwd equal to the event's cwd, the event is assigned
\* to that agent, whatever the agents' start order.
C5_CwdMatchWins ==
    Matched =>
        \A t \in NonTask :
            LET same == {i \in Spanning(t) :
                            InAgents[i].cwd # "" /\ InAgents[i].cwd = t.cwd}
            IN (Cardinality(Spanning(t)) > 1 /\ Cardinality(same) = 1)
               => \A i \in same : t \in OwnedBy(InAgents[i].agent_id)

\* the cwd-matching agent started first, so the fallback would pick the other one
C5_Witness ==
    /\ Matched
    /\ \E t \in NonTask : \E i, j \in Spanning(t) :
          /\ i # j
          /\ Cardinality(Spanning(t)) = 2
          /\ InAgents[i].cwd = t.cwd /\ t.cwd # ""
          /\ InAgents[j].cwd # t.cwd
          /\ InAgents[i].started_at < InAgents[j].started_at
          /\ t \in OwnedBy(InAgents[i].agent_id)

\* C6 as stated: a non-Task tool event whose timestamp is missing or does not
\* parse is owned by no agent and is in the unmatched list, and correlating it
\* raises no error.
C6_BadStampUnmatched ==
    pc = "matched" =>
        \A t \in NonTask :
            ~Parses(t.ts) => /\ ~result.raised
                             /\ t \in UnmatchedSet
                             /\ t \notin AllOwned

\* C16: no Task event supplies the label of more than one agent: agents are
\* processed in ascending started_at order, and once an agent has claimed a
\* Task no later agent claims it and the earlier claim is never revoked.
C16_TaskClaimedOnce ==
    Matched =>
        LET cl == result.claims
        IN /\ \A j, k \in 1..Len(cl) :
                 j < k => /\ cl[j].task # cl[k].task
                          /\ cl[j].agent.agent_id # cl[k].agent.agent_id
                          /\ cl[j].agent.started_at <= cl[k].agent.started_at
                          /\ cl[j].task \in cl[k].used_before
           /\ \A k \in 1..Len(cl) :
                 \A l \in result.agent_labels :
                     l[1] = cl[k].agent.agent_id => l[2] = result.pool[cl[k].task].text
           /\ \A l \in result.agent_labels :
                 \E k \in 1..Len(cl) : l[1] = cl[k].agent.agent_id

\* two agents claimed, and the Task the first one took is nearer the second
\* agent's start than the Task the second one was left with
C16_Witness ==
    /\ Matched
    /\ Len(result.claims) = 2
    /\ LET c1 == result.claims[1]
           c2 == result.claims[2]
       IN /\ result.pool[c1.task].ts <= c2.agent.started_at
          /\ Abs(c2.agent.started_at - result.pool[c1.task].ts)
                < Abs(c2.agent.started_at - result.pool[c2.task].ts)

----------------------------------------------------------------------------
(* Specification SpecOverlap: _match_tools_to_agents applied to one tool event *)
(* and three running agents                                                   *)

OverlapCwds == {"", "/a", "/b"}
OverlapToolRows ==
    [tool_name : {"Read"}, tool_label : {""}, created_at : {3, 5}, cwd : OverlapCwds]
OverlapAgentRows ==
    [agent_type : {"Explore"}, session_id : {1}, cwd : OverlapCwds,
     started_at : {2, 3, 4}, stopped_at : {Null}]
OverlapAgentLists == {s \in [1..3 -> OverlapAgentRows] : ByStartedAt(s)}

InitOverlap ==
    /\ session_prompts = <<>>
    /\ \E t \in OverlapToolRows : session_tools = <<t>>
    /\ \E r \in OverlapAgentLists : r_agents = WithIds(r, 0)
    /\ c_agents = <<>>
    /\ items = << [session_id |-> 1, is_stat |-> FALSE] >>
    /\ visible_items = items
    /\ selected = 0
    /\ focus = "right"
    /\ viz_mode = 0
    /\ game_of_life = FALSE
    /\ tree_cursor = 0
    /\ detail_scroll = 0
    /\ expanded_tool = -1
    /\ collapsed_prompts = {}
    /\ collapsed_agents = {}
    /\ tree_timeline = <<>>
    /\ layout = "wide"
    /\ panel_h = 1
    /\ pc = "input"
    /\ result = NoResult
    /\ hist = <<>>
    /\ now_utc = 0
    /\ NoStore

SpecOverlap == InitOverlap /\ [][NextMatch]_vars

\* C17 as stated, for an event with a non-empty cwd: when two or more agents'
\* windows contain a tool event's timestamp and at least one of those agents
\* has cwd equal to the event's cwd, the event is assigned to an agent whose
\* cwd equals the event's cwd.
C17_CwdPreferred ==
    Matched =>
        \A t \in NonTask :
            LET same == {i \in Spanning(t) : InAgents[i].cwd = t.cwd}
            IN (t.cwd # "" /\ Cardinality(Spanning(t)) >= 2 /\ same # {})
               => \E i \in same : t \in OwnedBy(InAgents[i].agent_id)

----------------------------------------------------------------------------
(* Specification Spec: the main loop (lines 2769-2909) over refreshed snapshots *)

PanelHeights == {4}

\* rows of table prompt as query_db selects them (lines 306-315)
PromptRow(t) == [prompt |-> "fix the bug", created_at |-> t]
\* rows of table tool_event (lines 289-297)
TaskRow(t) == [tool_name |-> "Task", tool_label |-> "Explore the repo",
               created_at |-> t, cwd |-> ""]
ReadRow(t) == [tool_name |-> "Read", tool_label |-> "", created_at |-> t, cwd |-> ""]
\* rows of table agent (lines 238-254)
AgentRow(id, start, stop) ==
    [agent_id |-> id, agent_type |-> "Explore", session_id |-> 1, cwd |-> "",
     started_at |-> start, stopped_at |-> stop]

SessionItem == [session_id |-> 1, is_stat |-> FALSE]
StatItem == [session_id |-> NoSid, is_stat |-> TRUE]

\* what refresh_data can put in the cache: the prompts (newest first), the tool
\* events (oldest first), the running and the completed agents of the session
\* shown, and the rows of the primary panel
SnapPrompts == {<<>>, <<PromptRow(2)>>}
SnapTools == {<<>>, <<TaskRow(2), ReadRow(3)>>}
SnapAgents == {[r |-> <<>>, c |-> <<>>],
               [r |-> <<AgentRow(1, 3, Null)>>, c |-> <<>>]}

\* no active session: nothing is cached and the primary panel is empty
NoSession ==
    [session_prompts |-> <<>>, session_tools |-> <<>>, r_agents |-> <<>>,
     c_agents |-> <<>>, items |-> <<>>]

Snapshots ==
    {NoSession} \cup
    {[session_prompts |-> p, session_tools |-> t, r_agents |-> a.r,
      c_agents |-> a.c, items |-> <<SessionItem, StatItem>>] :
        p \in SnapPrompts, t \in SnapTools, a \in SnapAgents}

\* lines 1690-1710
refresh_data(snap) ==
    /\ session_prompts' = snap.session_prompts
    /\ session_tools' = snap.session_tools
    /\ r_agents' = snap.r_agents
    /\ c_agents' = snap.c_agents
    /\ items' = snap.items

\* the terminal sizes draw() tells apart: too small to draw at all (lines
\* 2011-2015), too narrow for the detail panel (line 2644), wide enough
Layouts == {"tiny", "narrow", "wide"}

\* lines 2777-2782: the state main() builds, with the cache refreshed once
Init ==
    /\ \E snap \in Snapshots :
          /\ session_prompts = snap.session_prompts
          /\ session_tools = snap.session_tools
          /\ r_agents = snap.r_agents
          /\ c_agents = snap.c_agents
          /\ items = snap.items
    /\ visible_items = <<>>
    /\ selected = 0
    /\ focus = "left"
    /\ viz_mode = 0
    /\ game_of_life = FALSE
    /\ tree_cursor = 0
    /\ detail_scroll = 0
    /\ expanded_tool = -1
    /\ collapsed_prompts = {}
    /\ collapsed_agents = {}
    /\ tree_timeline = <<>>
    /\ layout \in Layouts
    /\ panel_h \in PanelHeights
    /\ pc = "draw"
    /\ result = NoResult
    /\ hist = <<>>
    /\ now_utc = 0
    /\ NoStore

\* line 63
VIZ_MODES == <<"tree", "gantt">>

\* line 2792
n_modes == Len(VIZ_MODES) + (IF game_of_life THEN 1 ELSE 0)

\* line 2648
viz_name(v) == IF v < Len(VIZ_MODES) THEN VIZ_MODES[(v % Len(VIZ_MODES)) + 1] ELSE "life"

\* lines 2628-2632
clamp_selected(sel, vis) ==
    IF vis # <<>>
    THEN (IF (IF sel <= Len(vis) - 1 THEN sel ELSE Len(vis) - 1) >= -1
          THEN (IF sel <= Len(vis) - 1 THEN sel ELSE Len(vis) - 1) ELSE -1)
    ELSE -1

\* lines 1160-1343: what _draw_viz_tree does to the state, for the cache given
DrawTree(p, t, r, c, h) ==
    LET sid == target_sid(visible_items', selected')
        b == build_timeline(p, t, r, c, sid, collapsed_prompts, collapsed_agents)
        cursor == clamp_cursor(tree_cursor, Len(b.timeline))
        rows == visible_rows(h, expanded_tool, Len(b.timeline))
    IN IF sid = NoSid
       THEN /\ pc' = "key"
            /\ UNCHANGED <<tree_timeline, tree_cursor, detail_scroll>>
       ELSE IF b.raised
       THEN /\ pc' = "crashed"
            /\ UNCHANGED <<tree_timeline, tree_cursor, detail_scroll>>
       ELSE /\ pc' = "key"
            /\ tree_timeline' = b.timeline
            /\ tree_cursor' = cursor
            /\ detail_scroll' = adjust_scroll(detail_scroll, cursor, rows)

\* lines 866-887: the agent tracks of the gantt view and its scroll clamp
gantt_tracks(r, c, sid) ==
    SelectSeq(SessionAgents(r \o c, sid), LAMBDA a : Parses(a.started_at))

gantt_scroll(scroll, ntracks, h) ==
    LET agent_rows == IF h - 3 > 1 THEN h - 3 ELSE 1
        most == IF ntracks - agent_rows > 0 THEN ntracks - agent_rows ELSE 0
    IN IF scroll <= most THEN scroll ELSE most

\* lines 801-887: _draw_viz_gantt returns before the scroll clamp when there is no
\* session or no segment, and clamps detail_scroll otherwise
DrawGantt(r, c, h) ==
    /\ pc' = "key"
    /\ detail_scroll' \in
          {detail_scroll,
           gantt_scroll(detail_scroll,
                        Len(gantt_tracks(r, c, target_sid(visible_items', selected'))), h)}
    /\ UNCHANGED <<tree_timeline, tree_cursor>>

\* lines 2009-2762: draw(), for the cache given
DrawBody(p, t, r, c, its) ==
    IF layout = "tiny"
    THEN /\ pc' = "key"
         /\ UNCHANGED <<visible_items, selected, tree_timeline, tree_cursor, detail_scroll>>
    ELSE /\ visible_items' = its
         /\ selected' = clamp_selected(selected, its)
         /\ IF layout = "narrow"
            THEN /\ pc' = "key"
                 /\ UNCHANGED <<tree_timeline, tree_cursor, detail_scroll>>
            ELSE IF viz_name(viz_mode) = "tree"
            THEN DrawTree(p, t, r, c,
                          IF sel_item(visible_items', selected') # <<>>
                          THEN panel_h - 2 ELSE panel_h)
            ELSE IF viz_name(viz_mode) = "gantt"
            THEN DrawGantt(r, c, panel_h)
            ELSE /\ pc' = "key"
                 /\ UNCHANGED <<tree_timeline, tree_cursor, detail_scroll>>

\* the tree was rebuilt by this step
Rebuilt ==
    layout = "wide" /\ viz_name(viz_mode) = "tree" /\ pc' = "key"
        /\ target_sid(visible_items', selected') # NoSid

\* the record of a build that found the cursor past the last row of the new
\* timeline
Clamped ==
    IF Rebuilt /\ tree_cursor > 0 /\ tree_cursor >= Len(tree_timeline')
    THEN [kind |-> "refresh", key |-> NoKey, presses |-> 0, built |-> TRUE,
          prompts |-> {}, agents |-> {}, count |-> Len(tree_timeline), dirty |-> TRUE]
    ELSE <<>>

\* lines 2784-2786 on a frame that is a multiple of DATA_FRAMES: refresh, then draw
RefreshDraw ==
    /\ pc = "draw"
    /\ \E snap \in Snapshots :
          /\ refresh_data(snap)
          /\ DrawBody(snap.session_prompts, snap.session_tools, snap.r_agents,
                      snap.c_agents, snap.items)
    /\ hist' = Clamped
    /\ UNCHANGED <<focus, viz_mode, game_of_life, expanded_tool, collapsed_prompts,
                   collapsed_agents, layout, panel_h, result, now_utc, storeVars>>

\* line 2786 on any other frame: draw from the cache
Draw ==
    /\ pc = "draw"
    /\ DrawBody(session_prompts, session_tools, r_agents, c_agents, items)
    /\ hist' = IF hist # <<>> /\ Rebuilt
               THEN [hist EXCEPT !.built = TRUE] ELSE hist
    /\ UNCHANGED <<cacheVars, focus, viz_mode, game_of_life, expanded_tool,
                   collapsed_prompts, collapsed_agents, layout, panel_h, result, now_utc, storeVars>>

----------------------------------------------------------------------------
(* Key handling, lines 2788-2909 *)

\* the reset with the expanded tool left as it is
ResetDetail_keep_expanded ==
    /\ detail_scroll' = 0
    /\ tree_cursor' = 0
    /\ UNCHANGED expanded_tool

\* state["detail_scroll"] = 0; state["tree_cursor"] = 0; state["_expanded_tool"] = -1
ResetDetail ==
    /\ detail_scroll' = 0
    /\ tree_cursor' = 0
    /\ expanded_tool' = -1

KeyDone ==
    /\ pc' = "draw"
    /\ UNCHANGED <<layout, panel_h, game_of_life, result, now_utc, storeVars, visible_items, tree_timeline>>

\* lines 2789-2790: q ends the loop
KeyQuit ==
    /\ pc = "key"
    /\ pc' = "quit"
    /\ UNCHANGED <<cacheVars, uiVars, result, hist, now_utc, storeVars>>

\* getch() timed out, or the key has no handler
KeyNone ==
    /\ pc = "key"
    /\ pc' = "draw"
    /\ UNCHANGED <<cacheVars, uiVars, result, hist, now_utc, storeVars>>

\* the record of a key that moved the focus: dirty tells whether the cursor, the
\* scroll offset and the expanded tool were all off their defaults before it
Switched ==
    IF focus' # focus
    THEN [kind |-> "focus", key |-> NoKey, presses |-> 0, built |-> FALSE,
          prompts |-> {}, agents |-> {}, count |-> 0,
          dirty |-> (tree_cursor # 0 /\ detail_scroll # 0 /\ expanded_tool # -1)]
    ELSE <<>>

\* lines 2791-2796
KeyTab ==
    /\ pc = "key"
    /\ viz_mode' = (viz_mode + 1) % n_modes
    /\ ResetDetail
    /\ focus' = "right"
    /\ hist' = Switched
    /\ KeyDone
    /\ UNCHANGED <<cacheVars, selected, collapsed_prompts, collapsed_agents>>

\* lines 2797-2802
KeyShiftTab ==
    /\ pc = "key"
    /\ viz_mode' = (viz_mode - 1) % n_modes
    /\ ResetDetail
    /\ focus' = "right"
    /\ hist' = Switched
    /\ KeyDone
    /\ UNCHANGED <<cacheVars, selected, collapsed_prompts, collapsed_agents>>

\* lines 2803-2815, a pure Esc press (an escape sequence changes nothing)
KeyEsc ==
    /\ pc = "key"
    /\ IF focus = "right"
       THEN /\ focus' = "left"
            /\ ResetDetail
            /\ UNCHANGED selected
       ELSE /\ selected' = -1
            /\ UNCHANGED <<focus, detail_scroll, tree_cursor, expanded_tool>>
    /\ hist' = Switched
    /\ KeyDone
    /\ UNCHANGED <<cacheVars, viz_mode, collapsed_prompts, collapsed_agents>>

\* lines 2816-2824: j / down
KeyDown ==
    /\ pc = "key"
    /\ IF focus = "right"
       THEN /\ tree_cursor' =
                  (LET tl == Len(tree_timeline)
                       last == IF tl - 1 > 0 THEN tl - 1 ELSE 0
                   IN IF tree_cursor + 1 <= last THEN tree_cursor + 1 ELSE last)
            /\ UNCHANGED selected
       ELSE /\ selected' =
                  (IF visible_items # <<>>
                   THEN IF selected >= 0
                        THEN (IF selected + 1 <= Len(visible_items) - 1
                              THEN selected + 1 ELSE Len(visible_items) - 1)
                        ELSE 0
                   ELSE selected)
            /\ UNCHANGED tree_cursor
    /\ hist' = <<>>
    /\ KeyDone
    /\ UNCHANGED <<cacheVars, focus, viz_mode, detail_scroll, expanded_tool,
                   collapsed_prompts, collapsed_agents>>

\* lines 2825-2829: k / up
KeyUp ==
    /\ pc = "key"
    /\ IF focus = "right"
       THEN /\ tree_cursor' = (IF tree_cursor - 1 > 0 THEN tree_cursor - 1 ELSE 0)
            /\ UNCHANGED selected
       ELSE /\ selected' = (IF selected > 0 THEN selected - 1 ELSE selected)
            /\ UNCHANGED tree_cursor
    /\ hist' = <<>>
    /\ KeyDone
    /\ UNCHANGED <<cacheVars, focus, viz_mode, detail_scroll, expanded_tool,
                   collapsed_prompts, collapsed_agents>>

\* lines 2853-2856 and 2874-2877: the stats range moves; when it changed, the
\* cache is refreshed at once
StatsRange ==
    \/ UNCHANGED cacheVars
    \/ \E snap \in Snapshots : refresh_data(snap)

\* line 2846
sel_is_stat ==
    0 <= selected /\ selected < Len(visible_items) /\ visible_items[selected + 1].is_stat

\* lines 2830-2856: l / right (no viz mode is named "graph")
KeyRight ==
    /\ pc = "key"
    /\ IF focus = "left" /\ selected >= 0 /\ ~sel_is_stat
       THEN /\ focus' = "right"
            /\ ResetDetail
            /\ UNCHANGED cacheVars
       ELSE /\ StatsRange
            /\ UNCHANGED <<focus, detail_scroll, tree_cursor, expanded_tool>>
    /\ hist' = Switched
    /\ KeyDone
    /\ UNCHANGED <<selected, viz_mode, collapsed_prompts, collapsed_agents>>

\* lines 2857-2877: h / left
KeyLeft ==
    /\ pc = "key"
    /\ IF focus = "right"
       THEN /\ focus' = "left"
            /\ ResetDetail
            /\ UNCHANGED cacheVars
       ELSE /\ StatsRange
            /\ UNCHANGED <<focus, detail_scroll, tree_cursor, expanded_tool>>
    /\ hist' = Switched
    /\ KeyDone
    /\ UNCHANGED <<selected, viz_mode, collapsed_prompts, collapsed_agents>>

\* the key added whether or not it is in the set
Flip_add(set, key) == set \cup {key}

\* lines 2892-2895 and 2900-2903: flip membership
Flip(set, key) == IF key \in set THEN set \ {key} ELSE set \cup {key}

\* the record of a collapse toggle: the collapse sets and the node count before
\* the first press; a second press in a row on the same key keeps them
Pressed(kind, key) ==
    IF hist # <<>> /\ hist.kind = kind /\ hist.key = key /\ hist.presses = 1
    THEN [hist EXCEPT !.presses = 2, !.built = FALSE]
    ELSE [kind |-> kind, key |-> key, presses |-> 1, built |-> FALSE,
          prompts |-> collapsed_prompts, agents |-> collapsed_agents,
          count |-> Len(tree_timeline), dirty |-> FALSE]

\* lines 2884-2909: Space or Enter with the detail panel focused
ToggleAtCursor ==
    IF 0 <= tree_cursor /\ tree_cursor < Len(tree_timeline)
    THEN LET ev == tree_timeline[tree_cursor + 1]
         IN IF ev.kind = "prompt"
            THEN /\ collapsed_prompts' = Flip(collapsed_prompts, ev.prompt_key)
                 /\ expanded_tool' = -1
                 /\ hist' = Pressed("prompt", ev.prompt_key)
                 /\ UNCHANGED collapsed_agents
            ELSE IF ev.kind = "agent_group"
            THEN /\ collapsed_agents' = Flip(collapsed_agents, ev.agent_id)
                 /\ expanded_tool' = -1
                 /\ hist' = Pressed("agent_group", ev.agent_id)
                 /\ UNCHANGED collapsed_prompts
            ELSE /\ expanded_tool' = (IF expanded_tool = tree_cursor THEN -1 ELSE tree_cursor)
                 /\ hist' = <<>>
                 /\ UNCHANGED <<collapsed_prompts, collapsed_agents>>
    ELSE /\ hist' = <<>>
         /\ UNCHANGED <<expanded_tool, collapsed_prompts, collapsed_agents>>

\* lines 2878-2909: Enter
KeyEnter ==
    /\ pc = "key"
    /\ IF focus = "left" /\ selected >= 0
       THEN /\ focus' = "right"
            /\ ResetDetail
            /\ hist' = Switched
            /\ UNCHANGED <<collapsed_prompts, collapsed_agents>>
       ELSE IF focus = "right"
       THEN /\ ToggleAtCursor
            /\ UNCHANGED <<focus, detail_scroll, tree_cursor>>
       ELSE /\ hist' = <<>>
            /\ UNCHANGED <<focus, detail_scroll, tree_cursor, expanded_tool,
                           collapsed_prompts, collapsed_agents>>
    /\ KeyDone
    /\ UNCHANGED <<cacheVars, selected, viz_mode>>

\* lines 2878-2909: Space
KeySpace ==
    /\ pc = "key"
    /\ IF focus = "right"
       THEN ToggleAtCursor
       ELSE /\ hist' = <<>>
            /\ UNCHANGED <<expanded_tool, collapsed_prompts, collapsed_agents>>
    /\ KeyDone
    /\ UNCHANGED <<cacheVars, selected, viz_mode, focus, detail_scroll, tree_cursor>>

Next ==
    \/ RefreshDraw
    \/ Draw
    \/ KeyNone
    \/ KeyQuit
    \/ KeyTab
    \/ KeyShiftTab
    \/ KeyEsc
    \/ KeyDown
    \/ KeyUp
    \/ KeyRight
    \/ KeyLeft
    \/ KeyEnter
    \/ KeySpace

Spec == Init /\ [][Next]_vars

----------------------------------------------------------------------------
(* Claims about navigation, checked under Spec *)

\* C8: with the snapshot unchanged, pressing the collapse toggle twice in a row
\* on the same Prompt or AgentGroup restores the collapsed-prompt set, the
\* collapsed-agent set and, once the timeline is built again, its node count
\* to their values before the first press.
C8_DoubleToggleRestores ==
    (hist # <<>> /\ hist.presses = 2) =>
        /\ collapsed_prompts = hist.prompts
        /\ collapsed_agents = hist.agents
        /\ (hist.built => Len(tree_timeline) = hist.count)

\* an agent group with tools under it was collapsed and expanded again, and
\* the timeline was rebuilt
C8_Witness ==
    /\ hist # <<>>
    /\ hist.presses = 2
    /\ hist.built
    /\ hist.kind = "agent_group"
    /\ hist.count >= 3
    /\ Len(tree_timeline) = hist.count
    /\ \E i \in 1..Len(tree_timeline) : tree_timeline[i].under_agent

\* the state draw() leaves when _draw_viz_tree has built the timeline
JustBuilt ==
    /\ pc = "key"
    /\ layout = "wide"
    /\ viz_name(viz_mode) = "tree"
    /\ target_sid(visible_items, selected) # NoSid

last_row == IF Len(tree_timeline) - 1 > 0 THEN Len(tree_timeline) - 1 ELSE 0

\* C9: after every build of the timeline the cursor satisfies
\* 0 <= cursor <= max(0, length - 1) for the current timeline length; with the
\* detail panel focused, a move-down on the last row and a move-up on row 0
\* leave the cursor unchanged.
C9_CursorClamped ==
    /\ [](JustBuilt => 0 <= tree_cursor /\ tree_cursor <= last_row)
    /\ [][(KeyDown /\ focus = "right" /\ tree_cursor = last_row)
              => tree_cursor' = tree_cursor]_vars
    /\ [][(KeyUp /\ focus = "right" /\ tree_cursor = 0)
              => tree_cursor' = tree_cursor]_vars

\* a refresh built a timeline shorter than the one the cursor sat in, and the
\* cursor is on the last row of the new one
C9_Witness ==
    /\ JustBuilt
    /\ hist # <<>>
    /\ hist.kind = "refresh"
    /\ hist.count > Len(tree_timeline)
    /\ Len(tree_timeline) >= 2
    /\ tree_cursor = last_row

\* C10: every transition that changes focus between the primary list and the
\* detail panel sets the cursor to 0, the scroll offset to 0 and the
\* expanded-tool index to none (-1).
C10_FocusSwitchResets ==
    [][focus' # focus =>
          tree_cursor' = 0 /\ detail_scroll' = 0 /\ expanded_tool' = -1]_vars

\* the focus has just left the detail panel, where the cursor, the scroll
\* offset and the expanded tool were all off their defaults
C10_Witness ==
    /\ hist # <<>>
    /\ hist.kind = "focus"
    /\ hist.dirty
    /\ focus = "left"
    /\ tree_cursor = 0 /\ detail_scroll = 0 /\ expanded_tool = -1

----------------------------------------------------------------------------
(* Specification SpecTree: the timeline builder applied to drawn inputs, *)
(* with no prompt and no agent collapsed                                 *)

MaxPrompts == 2
MaxTreeTools == 2
MaxTreeAgents == 2

TreePromptRows == [prompt : {"fix the bug", "<task-notification>"}, created_at : {2, 5}]
TreeToolRows ==
    [tool_name : {"Task"}, tool_label : {"Explore the repo"},
     created_at : {Empty, 2, 3, 6}, cwd : {""}]
    \cup [tool_name : {"Read"}, tool_label : {""}, created_at : {Empty, 2, 3, 6}, cwd : {""}]
TreeRunningRows ==
    [agent_type : {"Explore", ""}, session_id : {1}, cwd : {""},
     started_at : {2, 4}, stopped_at : {Null}]
TreeCompletedRows ==
    {[agent_type |-> "Explore", session_id |-> 1, cwd |-> "",
      started_at |-> w[1], stopped_at |-> w[2]] : w \in {<<2, 3>>, <<2, 6>>, <<4, 6>>}}

\* ORDER BY created_at DESC (lines 306-315)
ByCreatedAtDesc(s) == \A i \in 1..(Len(s) - 1) : s[i].created_at >= s[i + 1].created_at

TreePromptLists == {s \in SeqsUpTo(TreePromptRows, MaxPrompts) : ByCreatedAtDesc(s)}
TreeToolLists == {s \in SeqsUpTo(TreeToolRows, MaxTreeTools) : ByCreatedAt(s)}
TreeRunningLists == {s \in SeqsUpTo(TreeRunningRows, MaxTreeAgents) : ByStartedAt(s)}
TreeCompletedLists == {s \in SeqsUpTo(TreeCompletedRows, MaxTreeAgents) : ByStoppedAtDesc(s)}

InitTree ==
    /\ session_prompts \in TreePromptLists
    /\ session_tools \in TreeToolLists
    /\ \E r \in TreeRunningLists, c \in TreeCompletedLists :
          /\ Len(r) + Len(c) <= MaxTreeAgents
          /\ r_agents = WithIds(r, 0)
          /\ c_agents = WithIds(c, Len(r))
    /\ items = << SessionItem >>
    /\ visible_items = items
    /\ selected = 0
    /\ focus = "right"
    /\ viz_mode = 0
    /\ game_of_life = FALSE
    /\ tree_cursor = 0
    /\ detail_scroll = 0
    /\ expanded_tool = -1
    /\ collapsed_prompts = {}
    /\ collapsed_agents = {}
    /\ tree_timeline = <<>>
    /\ layout = "wide"
    /\ panel_h = 4
    /\ pc = "input"
    /\ result = NoResult
    /\ hist = <<>>
    /\ now_utc = 0
    /\ NoStore

\* lines 1181-1319
BuildTree ==
    /\ pc = "input"
    /\ LET b == build_timeline(session_prompts, session_tools, r_agents, c_agents,
                               target_sid(visible_items, selected),
                               collapsed_prompts, collapsed_agents)
       IN IF b.raised
          THEN pc' = "crashed" /\ UNCHANGED tree_timeline
          ELSE pc' = "built" /\ tree_timeline' = b.timeline
    /\ UNCHANGED <<cacheVars, visible_items, selected, focus, viz_mode, game_of_life,
                   tree_cursor, detail_scroll, expanded_tool, collapsed_prompts,
                   collapsed_agents, layout, panel_h, result, hist, now_utc, storeVars>>

NextTree == BuildTree

SpecTree == InitTree /\ [][NextTree]_vars

----------------------------------------------------------------------------
(* Claims about the timeline builder, checked under SpecTree *)

Built == pc = "built"

Rows == 1..Len(tree_timeline)
PromptAt(i) == tree_timeline[i].kind = "prompt"
TopLevel(i) == ~tree_timeline[i].under_agent

\* the row of the prompt heading the section row i is in: the nearest prompt at
\* or above it, 0 when there is none
SectionOf(i) ==
    LET ps == {k \in 1..i : PromptAt(k)}
    IN IF ps = {} THEN 0 ELSE CHOOSE k \in ps : \A m \in ps : m <= k

\* the row is older than the prompt heading its section
OlderThanPrompt(i) ==
    SectionOf(i) # 0 /\ tree_timeline[i].ts < tree_timeline[SectionOf(i)].ts

\* the row of the agent group a nested tool row is under
AgentRowOf(i) ==
    LET gs == {k \in 1..i : tree_timeline[k].kind = "agent_group"}
    IN IF gs = {} THEN 0 ELSE CHOOSE k \in gs : \A m \in gs : m <= k

\* C7 as stated: the timeline built with no prompt and no agent collapsed lists
\* its nodes in non-decreasing timestamp order.
C7_SortedByTs ==
    Built => \A i, j \in Rows : i < j => tree_timeline[i].ts <= tree_timeline[j].ts

\* C7 amended: the timeline built with no prompt and no agent collapsed lists
\* the prompts newest first; under each prompt, its top-level nodes (tools no
\* agent owns, and agent groups) stamped at or after the prompt follow in
\* non-decreasing timestamp order; the top-level nodes older than every prompt
\* come after those of the oldest prompt, in non-decreasing timestamp order;
\* the tools nested under an agent group are in non-decreasing timestamp
\* order, none stamped before the agent's start.
C7_GroupedOrder ==
    Built =>
        /\ \A i, j \in Rows :
              (i < j /\ PromptAt(i) /\ PromptAt(j))
              => tree_timeline[i].ts >= tree_timeline[j].ts
        /\ \A i, j \in Rows :
              (OlderThanPrompt(i) /\ PromptAt(j)) => j < i
        /\ \A i, j \in Rows :
              (i < j /\ TopLevel(i) /\ TopLevel(j) /\ SectionOf(i) = SectionOf(j))
              => /\ OlderThanPrompt(i) => OlderThanPrompt(j)
                 /\ (OlderThanPrompt(i) = OlderThanPrompt(j))
                       => tree_timeline[i].ts <= tree_timeline[j].ts
        /\ \A j \in Rows :
              ~TopLevel(j)
              => /\ AgentRowOf(j) # 0
                 /\ tree_timeline[AgentRowOf(j)].ts <= tree_timeline[j].ts
                 /\ (~TopLevel(j - 1) => tree_timeline[j - 1].ts <= tree_timeline[j].ts)

\* two prompts of different instants, a tool nested under an agent group, a
\* top-level node under a prompt and a node older than every prompt
C7_Witness ==
    /\ Built
    /\ \E i, j \in Rows :
          i < j /\ PromptAt(i) /\ PromptAt(j) /\ tree_timeline[i].ts > tree_timeline[j].ts
    /\ \E i \in Rows : ~TopLevel(i)
    /\ \E i \in Rows : ~PromptAt(i) /\ TopLevel(i) /\ SectionOf(i) # 0 /\ ~OlderThanPrompt(i)
    /\ \E i \in Rows : OlderThanPrompt(i)

\* C18: in the built timeline, every AgentGroup node whose agent_id is not in
\* the collapsed-agent set is immediately followed by all of its owned
\* ToolEvents, each flagged as nested under an agent; this holds for agent
\* groups under a Prompt and for agent groups in the headless group that
\* precedes the first Prompt.
C18_GroupFollowedByTools ==
    Built =>
        \A i \in Rows :
            LET g == tree_timeline[i]
            IN (g.kind = "agent_group" /\ g.agent_id \notin collapsed_agents)
               => /\ i + g.child_count <= Len(tree_timeline)
                  /\ \A k \in 1..g.child_count :
                        /\ tree_timeline[i + k].kind = "tool"
                        /\ tree_timeline[i + k].src = g.children[k].src
                        /\ tree_timeline[i + k].under_agent

\* the rows of the timeline that show tool event i of the session
RowsOfTool(i) ==
    {k \in Rows : tree_timeline[k].kind = "tool" /\ tree_timeline[k].src = i}

\* C19: every non-Task tool event of the selected session appears exactly once
\* in the fully expanded timeline (no prompt or agent collapsed), either as a
\* standalone leaf or nested under the group of the agent that owns it; no
\* tool event is owned by an agent that has no AgentGroup node.
C19_EveryToolShownOnce ==
    Built =>
        \A i \in 1..Len(session_tools) :
            session_tools[i].tool_name # "Task" => Cardinality(RowsOfTool(i)) = 1

\* the prompt group a row comes from: the row of its prompt, 0 for the
\* headless group
OriginOf(i) == IF OlderThanPrompt(i) THEN 0 ELSE SectionOf(i)

\* C20: two nodes of the built timeline carry the same group index exactly
\* when they originate from the same Prompt group; nodes of the headless group
\* (events before the first Prompt) carry an index different from that of
\* every Prompt group.
C20_GroupIndexTellsGroups ==
    Built =>
        \A i, j \in Rows :
            (tree_timeline[i].group = tree_timeline[j].group) <=> (OriginOf(i) = OriginOf(j))

----------------------------------------------------------------------------
(* _build_gantt_segments and _time_to_col.  Instants and durations are whole *)
(* numbers of time steps, Sec steps to the second; the timestamps of the     *)
(* event store are whole seconds, tool durations and the clock are not.      *)
(* The quotients the code takes in floating point are taken exactly.         *)

Sec == 2

\* parse_dt returns None
NoTime == -1

\* lines 584-594
parse_dt(ts) == IF Parses(ts) THEN ts * Sec ELSE NoTime

\* timedelta(milliseconds=dur_ms), line 756
timedelta_ms(ms) == (ms * Sec) \div 1000

Least(a, b) == IF a <= b THEN a ELSE b
Most(a, b) == IF a >= b THEN a ELSE b

\* line 727: sorted(prompts, key=created_at)
sorted_prompts(prompts) ==
    LET sp == SortPairs([i \in 1..Len(prompts) |-> <<prompts[i].created_at, prompts[i]>>])
    IN [i \in 1..Len(sp) |-> sp[i][2]]

\* the window taken to the clock for every prompt
window_end_now(sp, i, now) == now

\* lines 739-743: next prompt start, or now
window_end(sp, i, now) ==
    IF i + 1 <= Len(sp)
    THEN (IF parse_dt(sp[i + 1].created_at) # NoTime
          THEN parse_dt(sp[i + 1].created_at) ELSE now)
    ELSE now

\* lines 752-757: the end of a tool event
tool_end(t) ==
    IF t.duration_ms # 0
    THEN parse_dt(t.created_at) + timedelta_ms(t.duration_ms)
    ELSE parse_dt(t.created_at)

\* lines 748-758
RECURSIVE tools_activity(_, _, _, _)
tools_activity(tools, seg_start, w_end, last) ==
    IF tools = <<>> THEN last
    ELSE LET t == Head(tools)
             t_start == parse_dt(t.created_at)
         IN tools_activity(Tail(tools), seg_start, w_end,
                IF t_start = NoTime \/ t_start < seg_start \/ t_start >= w_end
                THEN last ELSE Most(last, tool_end(t)))

\* the agent's end taken without the clamp to the prompt window
effective_end_unclamped(a_stop, now, w_end) == IF a_stop # NoTime THEN a_stop ELSE now

\* line 765: min(a_stop or now_utc, window_end)
effective_end(a_stop, now, w_end) ==
    Least(IF a_stop # NoTime THEN a_stop ELSE now, w_end)

\* lines 760-766
RECURSIVE agents_activity(_, _, _, _, _)
agents_activity(agents, seg_start, w_end, now, last) ==
    IF agents = <<>> THEN last
    ELSE LET a == Head(agents)
             a_start == parse_dt(a.started_at)
             a_stop == parse_dt(a.stopped_at)
         IN agents_activity(Tail(agents), seg_start, w_end, now,
                IF a_start = NoTime \/ a_start >= w_end
                      \/ (a_stop # NoTime /\ a_stop <= seg_start)
                THEN last ELSE Most(last, effective_end(a_stop, now, w_end)))

\* lines 745-766
last_activity(tools, agents, seg_start, w_end, now) ==
    agents_activity(agents, seg_start, w_end, now,
                    tools_activity(tools, seg_start, w_end, seg_start))

\* lines 732-780: prompts i.. of the sorted list, after the segments in acc
RECURSIVE segments_from(_, _, _, _, _, _)
segments_from(sp, i, tools, agents, now, acc) ==
    IF i > Len(sp) THEN acc
    ELSE LET seg_start == parse_dt(sp[i].created_at)
             w_end == window_end(sp, i, now)
             last == last_activity(tools, agents, seg_start, w_end, now)
             seg_end == Least(last, w_end)
             duration_s == Most(Sec, seg_end - seg_start)
         IN segments_from(sp, i + 1, tools, agents, now,
                IF seg_start = NoTime \/ last = seg_start
                THEN acc
                ELSE [segments |-> Append(acc.segments,
                                     [start |-> seg_start, end |-> seg_start + duration_s,
                                      duration_s |-> duration_s,
                                      offset_s |-> acc.total_active_s, src |-> i]),
                      total_active_s |-> acc.total_active_s + duration_s])

\* lines 718-782.  raised = TRUE stands for an exception leaving the function.
_build_gantt_segments(prompts, tools, agents, now) ==
    IF SortRaises([i \in 1..Len(prompts) |-> prompts[i].created_at])
    THEN [raised |-> TRUE, segments |-> <<>>, total_active_s |-> 0]
    ELSE LET g == segments_from(sorted_prompts(prompts), 1, tools, agents, now,
                                [segments |-> <<>>, total_active_s |-> 0])
         IN [raised |-> FALSE, segments |-> g.segments,
             total_active_s |-> g.total_active_s]

\* the column taken to the nearest whole number, upwards
to_col_ceil(num, den, bar_w) == Least(bar_w - 1, (num * bar_w + den - 1) \div den)

\* min(bar_w - 1, int(global_frac * bar_w)) with global_frac = num / den
to_col(num, den, bar_w) == Least(bar_w - 1, (num * bar_w) \div den)

\* the offset of the segment left out of the fraction
seg_col_local(dt_val, seg, total_active_s, bar_w) ==
    to_col(dt_val - seg.start, total_active_s, bar_w)

\* lines 790-793: local_frac * duration_s is the time elapsed in the segment
seg_col(dt_val, seg, total_active_s, bar_w) ==
    to_col(seg.offset_s + (dt_val - seg.start), total_active_s, bar_w)

\* the gap taken to the end of the segment that follows it
gap_col_end(seg, total_active_s, bar_w) ==
    to_col(seg.offset_s + seg.duration_s, total_active_s, bar_w)

\* lines 796-798
gap_col(seg, total_active_s, bar_w) == to_col(seg.offset_s, total_active_s, bar_w)

\* lines 785-799
_time_to_col(dt_val, segments, total_active_s, bar_w) ==
    IF segments = <<>> \/ total_active_s <= 0 THEN 0
    ELSE LET inside == {k \in 1..Len(segments) :
                           segments[k].start <= dt_val /\ dt_val <= segments[k].end}
             ahead == {k \in 1..Len(segments) : dt_val < segments[k].start}
             first(S) == CHOOSE k \in S : \A m \in S : k <= m
         IN IF inside # {}
            THEN seg_col(dt_val, segments[first(inside)], total_active_s, bar_w)
            ELSE IF ahead # {}
            THEN gap_col(segments[first(ahead)], total_active_s, bar_w)
            ELSE bar_w - 1

----------------------------------------------------------------------------
(* Specification SpecGantt: the gantt compressor and the timeline builder *)
(* applied to drawn inputs                                                *)

GanttMaxPrompts == 2
GanttMaxTools == 2

GanttPromptRows == [prompt : {"fix the bug"}, created_at : {Null, Empty, 2, 6, Garbled}]
\* duration_ms 0 stands for a duration that is null or zero
GanttToolRows ==
    [tool_name : {"Read"}, tool_label : {""}, created_at : {Null, 2, 6}, cwd : {""},
     duration_ms : {0, 500, 3000}]
GanttRunningRows ==
    [agent_type : {"Explore"}, session_id : {1}, cwd : {""},
     started_at : {Null, 2, 6}, stopped_at : {Null}]
\* one completed agent stopped before it started
GanttCompletedRows ==
    {[agent_type |-> "Explore", session_id |-> 1, cwd |-> "",
      started_at |-> w[1], stopped_at |-> w[2]] : w \in {<<2, 3>>, <<3, 2>>, <<3, 6>>}}

\* the clock is not behind any timestamp of the store
GanttNows == {6 * Sec + 1, 8 * Sec}

GanttPromptLists == {s \in SeqsUpTo(GanttPromptRows, GanttMaxPrompts) : ByCreatedAtDesc(s)}
GanttToolLists == {s \in SeqsUpTo(GanttToolRows, GanttMaxTools) : ByCreatedAt(s)}

InitGantt ==
    /\ session_prompts \in GanttPromptLists
    /\ session_tools \in GanttToolLists
    /\ \E r \in SeqsUpTo(GanttRunningRows, 1), c \in SeqsUpTo(GanttCompletedRows, 1) :
          /\ r_agents = WithIds(r, 0)
          /\ c_agents = WithIds(c, Len(r))
    /\ now_utc \in GanttNows
    /\ NoStore
    /\ items = << SessionItem >>
    /\ visible_items = items
    /\ selected = 0
    /\ focus = "right"
    /\ viz_mode \in {0, 1}
    /\ game_of_life = FALSE
    /\ tree_cursor = 0
    /\ detail_scroll = 0
    /\ expanded_tool = -1
    /\ collapsed_prompts = {}
    /\ collapsed_agents = {}
    /\ tree_timeline = <<>>
    /\ layout = "wide"
    /\ panel_h = 4
    /\ pc = "input"
    /\ result = NoResult
    /\ hist = <<>>

\* lines 817-823: the gantt view compresses the session shown
Compress ==
    /\ pc = "input"
    /\ viz_name(viz_mode) = "gantt"
    /\ LET sid == target_sid(visible_items, selected)
           g == _build_gantt_segments(session_prompts, session_tools,
                                      SessionAgents(all_agents, sid), now_utc)
       IN /\ result' = g
          /\ pc' = IF g.raised THEN "crashed" ELSE "compressed"
    /\ UNCHANGED <<cacheVars, uiVars, hist, now_utc, storeVars>>

\* the tree view builds the timeline of the session shown
BuildShown ==
    /\ viz_name(viz_mode) = "tree"
    /\ BuildTree

NextGantt == Compress \/ BuildShown

SpecGantt == InitGantt /\ [][NextGantt]_vars

----------------------------------------------------------------------------
(* Claims about the gantt compressor, checked under SpecGantt *)

Compressed == pc = "compressed"

segs == result.segments
last_seg == segs[Len(segs)]

\* the start of the first prompt that has one
PromptStarts ==
    {parse_dt(session_prompts[i].created_at) : i \in 1..Len(session_prompts)} \ {NoTime}
FirstPromptStart == CHOOSE t \in PromptStarts : \A u \in PromptStarts : t <= u

\* the ends of the session's tool events and agents; a running agent ends now
ActivityEnds ==
    {tool_end(session_tools[i]) :
        i \in {k \in 1..Len(session_tools) : Parses(session_tools[k].created_at)}}
    \cup {IF Parses(all_agents[i].stopped_at)
          THEN parse_dt(all_agents[i].stopped_at) ELSE now_utc :
             i \in {k \in 1..Len(all_agents) : Parses(all_agents[k].started_at)}}
LastActivity == CHOOSE t \in ActivityEnds : \A u \in ActivityEnds : t >= u
WallSpan == LastActivity - FirstPromptStart

PromptsWellFormed ==
    \A i \in 1..Len(session_prompts) : Parses(session_prompts[i].created_at)

TimeAxis == 0..(8 * Sec + 2)
BarWidths == {8, 11}

\* the column of every instant of the axis, for the segments built
Cols(bar_w) ==
    [t \in TimeAxis |-> _time_to_col(t, segs, result.total_active_s, bar_w)]

\* C12: for fixed segments and bar width, _time_to_col is monotone over the
\* whole time axis: t1 <= t2 implies _time_to_col(t1) <= _time_to_col(t2),
\* whether the timestamps lie in the same segment, in different segments, in
\* idle gaps or beyond the last segment.
C12_ColumnMonotone ==
    Compressed =>
        \A bar_w \in BarWidths :
            LET col == Cols(bar_w)
            IN \A t1, t2 \in TimeAxis : t1 <= t2 => col[t1] <= col[t2]

\* instants strictly between the end of segment k and the start of the next
GapAfter(k) == {t \in TimeAxis : segs[k].end < t /\ t < segs[k + 1].start}

\* two segments of different columns with a gap between them, and instants
\* before the first segment, in both segments and beyond the last
C12_Witness ==
    /\ Compressed
    /\ Len(segs) = 2
    /\ GapAfter(1) # {}
    /\ \E t \in TimeAxis : t < segs[1].start
    /\ \E t \in TimeAxis : t > segs[2].end
    /\ \E t \in TimeAxis : segs[2].start < t /\ t < segs[2].end
    /\ LET col == Cols(8)
       IN /\ col[segs[1].start] < col[segs[1].end]
          /\ col[segs[2].start] < col[segs[2].end]

\* C13: for a timestamp lying in an idle gap between two segments,
\* _time_to_col returns the same column as for the start of the next segment
\* (no interpolation); for a timestamp after the last segment's end it returns
\* width - 1.
C13_GapSnapsForward ==
    (Compressed /\ segs # <<>>) =>
        \A bar_w \in BarWidths :
            LET col == Cols(bar_w)
            IN /\ \A k \in 1..(Len(segs) - 1) : \A t \in GapAfter(k) :
                     col[t] = col[segs[k + 1].start]
               /\ \A t \in TimeAxis : t > last_seg.end => col[t] = bar_w - 1

\* a gap of more than one instant whose column is that of the next segment's
\* start and is neither the first nor the last column
C13_Witness ==
    /\ Compressed
    /\ Len(segs) = 2
    /\ Cardinality(GapAfter(1)) >= 2
    /\ \E t \in GapAfter(1) :
          /\ Cols(8)[t] = Cols(8)[segs[2].start]
          /\ Cols(8)[t] > 0 /\ Cols(8)[t] < 7
    /\ \E t \in TimeAxis : t > last_seg.end /\ Cols(8)[t] = 7

\* round(num / den) as Python rounds: to the nearest whole number, a tie to the
\* even one
Round(num, den) ==
    LET q == num \div den
        r == num % den
    IN IF 2 * r < den THEN q
       ELSE IF 2 * r > den THEN q + 1
       ELSE IF q % 2 = 0 THEN q ELSE q + 1

\* the segments an instant is inside of
Holding(t) == {k \in 1..Len(segs) : segs[k].start <= t /\ t <= segs[k].end}

\* C14 as stated: for a timestamp inside a segment, _time_to_col returns
\* round(global_fraction * width) clamped to [0, width - 1], where
\* global_fraction = (segment offset + time elapsed since the segment start) /
\* total_active_s.
C14_RoundedColumn ==
    Compressed =>
        \A bar_w \in BarWidths : \A t \in TimeAxis : \A k \in Holding(t) :
            Cols(bar_w)[t] =
                Most(0, Least(bar_w - 1,
                              Round((segs[k].offset_s + (t - segs[k].start)) * bar_w,
                                    result.total_active_s)))

\* C14 amended: for a timestamp inside a segment, _time_to_col returns
\* global_fraction * width truncated to a whole number (not rounded) and
\* clamped to [0, width - 1], where global_fraction = (segment offset + time
\* elapsed since the segment start) / total_active_s.
C14_TruncatedColumn ==
    Compressed =>
        \A bar_w \in BarWidths : \A t \in TimeAxis : \A k \in Holding(t) :
            Cols(bar_w)[t] =
                Most(0, Least(bar_w - 1,
                              ((segs[k].offset_s + (t - segs[k].start)) * bar_w)
                                  \div result.total_active_s))

\* an instant inside the second segment whose column is not a whole multiple
\* of the fraction, and an instant two segments share
C14_Witness ==
    /\ Compressed
    /\ Len(segs) = 2
    /\ \E t \in TimeAxis :
          /\ Holding(t) = {2}
          /\ ((segs[2].offset_s + (t - segs[2].start)) * 8) % result.total_active_s # 0
          /\ Cols(8)[t] < 7
    /\ \E t \in TimeAxis : Holding(t) = {1, 2}

\* C15: correlation, timeline building and gantt compression complete without
\* raising for every input, including empty inputs, records (tool events,
\* prompts, agents) whose timestamp field is null, and agents whose stopped_at
\* precedes started_at.
C15_NeverRaises == pc # "crashed"

\* the end of the prompt window segment k was cut from: the next prompt's start,
\* or now for the last prompt
WindowEndOf(k) == window_end(sorted_prompts(session_prompts), segs[k].src, now_utc)

----------------------------------------------------------------------------
(* The hook handler, src/ccnotify.py: main() runs once per hook event and    *)
(* writes the event store.  CURRENT_TIMESTAMP has whole seconds, so rows     *)
(* written within the same second carry the same timestamp.                  *)

MaxPromptRows == 2
MaxClock == 2

\* session_id and agent_id of the hook payloads
HookSessions == {1, 2}
HookAgents == {1}

\* the messages of the Notification hook, and the branch of the if/elif chain
\* of substring tests (lines 313-342) each of them takes
Messages == {"Claude is waiting for your input",
             "Claude needs your permission to use Bash",
             "Claude Code login successful"}

notification_subtitle(message) ==
    CASE message = "Claude is waiting for your input" -> "Waiting for input"
      [] message = "Claude needs your permission to use Bash" -> "Permission required"
      [] OTHER -> "Notification"

\* WHERE session_id = ?
SessionRows(tbl, sid) == {i \in 1..Len(tbl) : tbl[i].session_id = sid}

\* WHERE session_id = ? AND stoped_at IS NULL
OpenRows(tbl, sid) == {i \in SessionRows(tbl, sid) : tbl[i].stoped_at = Null}

\* ORDER BY created_at DESC LIMIT 1 over the rows S: a row with the greatest
\* created_at.  SQL leaves the order of rows with equal keys open (SQLite
\* 3.40 returns the one with the lowest id).
LatestRows(tbl, S) == {i \in S : \A j \in S : tbl[j].created_at <= tbl[i].created_at}

\* trigger auto_increment_seq, lines 189-198
next_seq(tbl, sid) ==
    LET seqs == {tbl[i].seq : i \in SessionRows(tbl, sid)} \cup {0}
    IN (CHOOSE m \in seqs : \A n \in seqs : n <= m) + 1

\* lines 245-255
handle_user_prompt_submit(sid) ==
    /\ prompt_table' =
          Append(prompt_table,
                 [id |-> Len(prompt_table) + 1, session_id |-> sid,
                  created_at |-> db_now, seq |-> next_seq(prompt_table, sid),
                  stoped_at |-> Null, lastWaitUserAt |-> Null])
    /\ notified' = ""

\* lines 257-299: the latest open prompt of the session is closed, and a
\* notification is sent whether or not there was one
handle_stop(sid, is_subagent) ==
    /\ IF OpenRows(prompt_table, sid) # {}
       THEN \E i \in LatestRows(prompt_table, OpenRows(prompt_table, sid)) :
               prompt_table' = [prompt_table EXCEPT ![i].stoped_at = db_now]
       ELSE UNCHANGED prompt_table
    /\ notified' = IF is_subagent THEN "Agent done" ELSE "Done"

\* lines 213-225: INSERT OR REPLACE drops the row of the same agent_id
handle_subagent_start(aid, sid) ==
    agent_table' =
        Append(SelectSeq(agent_table, LAMBDA a : a.agent_id # aid),
               [agent_id |-> aid, agent_type |-> "Explore", session_id |-> sid,
                started_at |-> db_now, stopped_at |-> Null])

\* lines 227-243: the row of the agent is stamped, or a completed row inserted
handle_subagent_stop(aid, sid) ==
    agent_table' =
        IF \E k \in 1..Len(agent_table) : agent_table[k].agent_id = aid
        THEN [k \in 1..Len(agent_table) |->
                 IF agent_table[k].agent_id = aid
                 THEN [agent_table[k] EXCEPT !.stopped_at = db_now]
                 ELSE agent_table[k]]
        ELSE Append(agent_table,
                    [agent_id |-> aid, agent_type |-> "Explore", session_id |-> sid,
                     started_at |-> db_now, stopped_at |-> db_now])

\* lines 301-342
handle_notification(sid, message) ==
    IF notification_subtitle(message) = "Waiting for input"
    THEN \E i \in LatestRows(prompt_table, SessionRows(prompt_table, sid)) \cup {0} :
            /\ (i = 0) = (SessionRows(prompt_table, sid) = {})
            /\ IF i # 0 /\ prompt_table[i].stoped_at # Null
               THEN /\ notified' = ""
                    /\ UNCHANGED prompt_table
               ELSE /\ notified' = "Waiting for input"
                    /\ IF i = 0
                       THEN UNCHANGED prompt_table
                       ELSE \E u \in LatestRows(prompt_table, SessionRows(prompt_table, sid)) :
                               prompt_table' =
                                   [prompt_table EXCEPT ![u].lastWaitUserAt = db_now]
    ELSE /\ notified' = notification_subtitle(message)
         /\ UNCHANGED prompt_table

\* lines 177-191 of src/agent_top/__init__.py: the sessions query_db selects as
\* active are those with a prompt row that is not stopped
active_sessions(tbl) == {tbl[i].session_id : i \in {k \in 1..Len(tbl) : tbl[k].stoped_at = Null}}

\* the rest of the state is agent-top's
topVars == <<cacheVars, uiVars, pc, result, hist, now_utc>>

InitNotify ==
    /\ NoStore
    /\ session_prompts = <<>>
    /\ session_tools = <<>>
    /\ r_agents = <<>>
    /\ c_agents = <<>>
    /\ items = <<>>
    /\ visible_items = <<>>
    /\ selected = 0
    /\ focus = "left"
    /\ viz_mode = 0
    /\ game_of_life = FALSE
    /\ tree_cursor = 0
    /\ detail_scroll = 0
    /\ expanded_tool = -1
    /\ collapsed_prompts = {}
    /\ collapsed_agents = {}
    /\ tree_timeline = <<>>
    /\ layout = "wide"
    /\ panel_h = 4
    /\ pc = "hook"
    /\ result = NoResult
    /\ hist = <<>>
    /\ now_utc = 0

\* lines 391-392
UserPromptSubmit(sid) ==
    /\ Len(prompt_table) < MaxPromptRows
    /\ handle_user_prompt_submit(sid)
    /\ UNCHANGED <<agent_table, db_now, topVars>>

\* lines 393-394
Stop(sid) ==
    /\ handle_stop(sid, FALSE)
    /\ UNCHANGED <<agent_table, db_now, topVars>>

\* lines 395-396
SubagentStart(aid, sid) ==
    /\ handle_subagent_start(aid, sid)
    /\ notified' = ""
    /\ UNCHANGED <<prompt_table, db_now, topVars>>

\* lines 397-399
SubagentStop(aid, sid) ==
    /\ handle_subagent_stop(aid, sid)
    /\ handle_stop(sid, TRUE)
    /\ UNCHANGED <<db_now, topVars>>

\* lines 400-401
Notification(sid, message) ==
    /\ handle_notification(sid, message)
    /\ UNCHANGED <<agent_table, db_now, topVars>>

\* a second passes between two hook runs
Tick ==
    /\ db_now < MaxClock
    /\ db_now' = db_now + 1
    /\ UNCHANGED <<prompt_table, agent_table, notified, topVars>>

NextNotify ==
    \/ \E sid \in HookSessions : UserPromptSubmit(sid)
    \/ \E sid \in HookSessions : Stop(sid)
    \/ \E aid \in HookAgents, sid \in HookSessions : SubagentStart(aid, sid)
    \/ \E aid \in HookAgents, sid \in HookSessions : SubagentStop(aid, sid)
    \/ \E sid \in HookSessions, message \in Messages : Notification(sid, message)
    \/ Tick

SpecNotify == InitNotify /\ [][NextNotify]_vars

----------------------------------------------------------------------------
(* Claims about the hook handler, checked under SpecNotify *)

\* C27: handling a SubagentStop event marks that agent stopped and leaves every
\* prompt row unchanged: the parent session's open prompt keeps stoped_at NULL
\* until a Stop event for the session is handled.
C27_SubagentStopKeepsPrompts ==
    /\ [][\A aid \in HookAgents, sid \in HookSessions :
             SubagentStop(aid, sid) =>
                /\ \E k \in 1..Len(agent_table') :
                      agent_table'[k].agent_id = aid /\ agent_table'[k].stopped_at # Null
                /\ prompt_table' = prompt_table]_vars
    /\ [][\A i \in 1..Len(prompt_table) :
             (prompt_table[i].stoped_at = Null /\ prompt_table'[i].stoped_at # Null)
                => Stop(prompt_table[i].session_id)]_vars

\* C28: after a Stop event is handled for a session, no prompt row of that
\* session has stoped_at NULL, however many prompts were submitted since the
\* previous Stop, so query_db no longer selects the session as active.
C28_StopClosesSession ==
    [][\A sid \in HookSessions :
          Stop(sid) =>
             /\ OpenRows(prompt_table', sid) = {}
             /\ sid \notin active_sessions(prompt_table')]_vars

\* the prompt of the session submitted last: the row with the greatest id
NewestRow(tbl, sid) ==
    CHOOSE i \in SessionRows(tbl, sid) : \A j \in SessionRows(tbl, sid) : j <= i

\* C29: a 'waiting for input' Notification is suppressed (no notification
\* sent, lastWaitUserAt unchanged) exactly when the session's most recently
\* submitted prompt already has stoped_at set; otherwise, as after a later
\* UserPromptSubmit, it is delivered and sets lastWaitUserAt on that newest
\* prompt.
C29_SuppressedIffNewestStopped ==
    [][\A sid \in HookSessions :
          Notification(sid, "Claude is waiting for your input") =>
             LET stopped == /\ SessionRows(prompt_table, sid) # {}
                            /\ prompt_table[NewestRow(prompt_table, sid)].stoped_at # Null
             IN /\ stopped => notified' = "" /\ prompt_table' = prompt_table
                /\ ~stopped =>
                      /\ notified' = "Waiting for input"
                      /\ SessionRows(prompt_table, sid) # {} =>
                            prompt_table' =
                               [prompt_table EXCEPT
                                  ![NewestRow(prompt_table, sid)].lastWaitUserAt = db_now]]_vars

----------------------------------------------------------------------------
(* Specification SpecOrdinal: the timeline built again after agents of the *)
(* session have stopped                                                    *)

MaxOrdinalAgents == 3

\* the time the agents stop at, after every start
StopStamp == 6

OrdinalRunningRows ==
    [agent_type : {"Explore", "Plan"}, session_id : {1}, cwd : {""},
     started_at : {2, 3, 4}, stopped_at : {Null}]

OrdinalRunningLists ==
    {s \in SeqsUpTo(OrdinalRunningRows, MaxOrdinalAgents) : ByStartedAt(s)}

InitOrdinal ==
    /\ session_prompts \in SnapPrompts
    /\ session_tools \in SnapTools
    /\ \E r \in OrdinalRunningLists : r_agents = WithIds(r, 0)
    /\ c_agents = <<>>
    /\ items = << SessionItem >>
    /\ visible_items = items
    /\ selected = 0
    /\ focus = "right"
    /\ viz_mode = 0
    /\ game_of_life = FALSE
    /\ tree_cursor = 0
    /\ detail_scroll = 0
    /\ expanded_tool = -1
    /\ collapsed_prompts = {}
    /\ collapsed_agents = {}
    /\ tree_timeline = <<>>
    /\ layout = "wide"
    /\ panel_h = 4
    /\ pc = "input"
    /\ result = NoResult
    /\ hist = <<>>
    /\ now_utc = 0
    /\ NoStore

\* a running agent has stopped since the last refresh: query_db lists it with
\* the completed agents, latest stop first (lines 247-254), and no longer with
\* the running ones (lines 238-244); the timeline is built from the new
\* snapshot (lines 1181-1319)
StopRefreshBuild ==
    /\ pc = "built"
    /\ \E k \in 1..Len(r_agents) :
          LET a == [r_agents[k] EXCEPT !.stopped_at = StopStamp]
              r == SelectSeq(r_agents, LAMBDA x : x.agent_id # a.agent_id)
              c == <<a>> \o c_agents
              b == build_timeline(session_prompts, session_tools, r, c,
                                  target_sid(visible_items, selected),
                                  collapsed_prompts, collapsed_agents)
          IN /\ r_agents' = r
             /\ c_agents' = c
             /\ IF b.raised
                THEN pc' = "crashed" /\ UNCHANGED tree_timeline
                ELSE pc' = "built" /\ tree_timeline' = b.timeline
    /\ UNCHANGED <<session_prompts, session_tools, items, visible_items, selected, focus,
                   viz_mode, game_of_life, tree_cursor, detail_scroll, expanded_tool,
                   collapsed_prompts, collapsed_agents, layout, panel_h, result, hist,
                   now_utc, storeVars>>

NextOrdinal == BuildTree \/ StopRefreshBuild

SpecOrdinal == InitOrdinal /\ [][NextOrdinal]_vars

\* C21: among agents that share a display label, the ordinal (#1, #2, ...)
\* given to each agent is the same in two successive refreshes whenever the
\* agents' relative started_at order is unchanged, including when one of them
\* changes from running to completed between the two refreshes.
C21_OrdinalStable ==
    [][(pc = "built" /\ pc' = "built") =>
          \A i \in 1..Len(tree_timeline), j \in 1..Len(tree_timeline') :
             (/\ tree_timeline[i].kind = "agent_group"
              /\ tree_timeline'[j].kind = "agent_group"
              /\ tree_timeline[i].agent_id = tree_timeline'[j].agent_id
              /\ tree_timeline[i].text = tree_timeline'[j].text
              /\ tree_timeline[i].seq # 0
              /\ tree_timeline'[j].seq # 0)
                => tree_timeline[i].seq = tree_timeline'[j].seq]_vars

----------------------------------------------------------------------------
(* Claims about the scroll window of the tree view, checked under Spec *)

\* the height draw() gives _draw_viz_tree (two rows go to the DETAIL header of
\* the selected item), and the rows it takes as visible (lines 1335-1337)
tree_h == IF sel_item(visible_items, selected) # <<>> THEN panel_h - 2 ELSE panel_h
TreeRows == visible_rows(tree_h, expanded_tool, Len(tree_timeline))

InView(scroll, cursor, rows) == scroll <= cursor /\ cursor < scroll + rows

\* C24: on each timeline build the scroll offset is left unchanged when
\* scroll <= cursor < scroll + visible_rows, and otherwise is moved by the
\* smallest amount that makes this hold; after the build
\* scroll <= cursor < scroll + visible_rows and scroll >= 0 always hold.
C24_ScrollFollowsCursor ==
    /\ [](JustBuilt => detail_scroll >= 0 /\ InView(detail_scroll, tree_cursor, TreeRows))
    /\ [][Rebuilt =>
             IF InView(detail_scroll, tree_cursor', TreeRows')
             THEN detail_scroll' = detail_scroll
             ELSE \A sc \in 0..Len(tree_timeline') :
                     InView(sc, tree_cursor', TreeRows')
                        => Abs(detail_scroll' - detail_scroll) <= Abs(sc - detail_scroll)]_vars

\* the window has moved down to keep the cursor on its last row, in a timeline
\* longer than the window
C24_Witness ==
    /\ JustBuilt
    /\ Len(tree_timeline) > TreeRows
    /\ detail_scroll > 0
    /\ tree_cursor = detail_scroll + TreeRows - 1

----------------------------------------------------------------------------
(* Claims about the expanded tool, checked under Spec *)

\* two timeline rows show the same tool event: same timestamp, same text
SameEvent(n, m) == n.kind = "tool" /\ m.kind = "tool" /\ n.ts = m.ts /\ n.text = m.text

\* C25: whenever the expanded-tool index is set (not -1) at a timeline build,
\* the node at that index is a ToolEvent and is the same tool event the user
\* expanded, for any sequence of cursor moves, collapse toggles and snapshot
\* refreshes since the expansion.  The key handler sets the index to the
\* cursor's row when that row is a tool event, so the claim says that the key
\* handler sets it on a tool row only and that every build with the index set
\* finds at the index the tool event the build before had there (stated here
\* for the builds whose timeline still shows that event).
C25_ExpandedToolKept ==
    /\ [][(expanded_tool' # -1 /\ expanded_tool' # expanded_tool) =>
             /\ expanded_tool' < Len(tree_timeline)
             /\ tree_timeline[expanded_tool' + 1].kind = "tool"]_vars
    /\ [][(/\ Rebuilt
           /\ expanded_tool # -1
           /\ expanded_tool < Len(tree_timeline)
           /\ \E j \in 1..Len(tree_timeline') :
                 SameEvent(tree_timeline'[j], tree_timeline[expanded_tool + 1])) =>
             /\ expanded_tool < Len(tree_timeline')
             /\ SameEvent(tree_timeline'[expanded_tool + 1],
                          tree_timeline[expanded_tool + 1])]_vars

----------------------------------------------------------------------------
(* Specification SpecDetail: the detail panel of one session across refreshes
   that add rows to the event store (prompts, tool events, an agent)          *)

\* a row of table prompt with its text (lines 306-315)
DetailPrompt(text, t) == [prompt |-> text, created_at |-> t]

\* the prompt lists of the session shown, newest first: one prompt, a second
\* prompt three seconds later, a second prompt within the same second
DetailPrompts ==
    {<<DetailPrompt("fix the bug", 2)>>,
     <<DetailPrompt("add tests", 5), DetailPrompt("fix the bug", 2)>>,
     <<DetailPrompt("add tests", 2), DetailPrompt("fix the bug", 2)>>}

\* the tool events of the session shown, oldest first
DetailTools == {<<>>, <<ReadRow(6)>>}

\* the prompts of the other session in cache["session_prompts"] (lines 306-315)
OtherSessionPrompts == {[session_id |-> 2, prompt |-> "write docs", created_at |-> 2]}

DetailSnapshots ==
    {[session_prompts |-> p, session_tools |-> t, r_agents |-> a.r,
      c_agents |-> a.c, items |-> <<SessionItem>>] :
        p \in DetailPrompts, t \in DetailTools, a \in SnapAgents}

\* the hooks only insert rows: every row of the cache is in the next snapshot
Grown(old, new) == \A i \in 1..Len(old) : \E j \in 1..Len(new) : new[j] = old[i]

InitDetail ==
    /\ \E snap \in DetailSnapshots :
          /\ session_prompts = snap.session_prompts
          /\ session_tools = snap.session_tools
          /\ r_agents = snap.r_agents
          /\ c_agents = snap.c_agents
          /\ items = snap.items
    /\ visible_items = <<>>
    /\ selected = 0
    /\ focus = "left"
    /\ viz_mode = 0
    /\ game_of_life = FALSE
    /\ tree_cursor = 0
    /\ detail_scroll = 0
    /\ expanded_tool = -1
    /\ collapsed_prompts = {}
    /\ collapsed_agents = {}
    /\ tree_timeline = <<>>
    /\ layout = "wide"
    /\ panel_h \in PanelHeights
    /\ pc = "draw"
    /\ result = NoResult
    /\ hist = <<>>
    /\ now_utc = 0
    /\ NoStore

\* lines 2784-2786 on a frame that is a multiple of DATA_FRAMES: the refresh
\* finds the rows the hooks added since the last one, then draw() rebuilds
RefreshDetail ==
    /\ pc = "draw"
    /\ \E snap \in DetailSnapshots :
          /\ Grown(session_prompts, snap.session_prompts)
          /\ Grown(session_tools, snap.session_tools)
          /\ Grown(r_agents, snap.r_agents)
          /\ refresh_data(snap)
          /\ DrawBody(snap.session_prompts, snap.session_tools, snap.r_agents,
                      snap.c_agents, snap.items)
    /\ hist' = IF hist # <<>> /\ Rebuilt
               THEN [hist EXCEPT !.built = TRUE] ELSE hist
    /\ UNCHANGED <<focus, viz_mode, game_of_life, expanded_tool, collapsed_prompts,
                   collapsed_agents, layout, panel_h, result, now_utc, storeVars>>

NextDetail ==
    \/ RefreshDetail
    \/ Draw
    \/ KeyNone
    \/ KeyDown
    \/ KeyUp
    \/ KeyEnter
    \/ KeySpace

SpecDetail == InitDetail /\ [][NextDetail]_vars

\* the cursor is on the prompt row with the key given
CursorOnPrompt(cursor, tl, key) ==
    /\ cursor < Len(tl)
    /\ tl[cursor + 1].kind = "prompt"
    /\ tl[cursor + 1].prompt_key = key

\* C22: after a collapse/expand toggle on the Prompt at the cursor, the cursor
\* in the next rebuilt timeline is on the node whose prompt key equals that
\* Prompt's timestamp, also when a snapshot refresh that adds prompts or events
\* happens between the key press and the rebuild.
C22_CursorAnchored ==
    [][(/\ Rebuilt
        /\ hist # <<>>
        /\ hist.kind = "prompt"
        /\ ~hist.built) =>
          CursorOnPrompt(tree_cursor', tree_timeline', hist.key)]_vars

\* the collapsed flag the builder gives a prompt (lines 1282-1292)
Collapsed(cp, created_at) == created_at \in cp

\* Enter or Space with the detail panel focused and the cursor on a prompt row
ToggledPrompt ==
    /\ pc = "key"
    /\ focus = "right"
    /\ tree_cursor < Len(tree_timeline)
    /\ tree_timeline[tree_cursor + 1].kind = "prompt"
    /\ KeyEnter \/ KeySpace

\* C23: toggling collapse on the Prompt at the cursor changes the collapsed flag
\* of that Prompt only: no other Prompt of the same session and no Prompt of any
\* other session changes its collapsed flag, and the collapsed-agent set is
\* unchanged.
C23_ToggleOnlyThatPrompt ==
    [][ToggledPrompt =>
          /\ collapsed_agents' = collapsed_agents
          /\ Collapsed(collapsed_prompts', tree_timeline[tree_cursor + 1].prompt_key)
                # Collapsed(collapsed_prompts, tree_timeline[tree_cursor + 1].prompt_key)
          /\ \A i \in 1..Len(tree_timeline) :
                (i # tree_cursor + 1 /\ tree_timeline[i].kind = "prompt") =>
                   Collapsed(collapsed_prompts', tree_timeline[i].prompt_key)
                      = Collapsed(collapsed_prompts, tree_timeline[i].prompt_key)
          /\ \A p \in OtherSessionPrompts :
                Collapsed(collapsed_prompts', p.created_at)
                   = Collapsed(collapsed_prompts, p.created_at)]_vars

----------------------------------------------------------------------------
(* Specification SpecScroll: the main loop over one session with more agent
   tracks than the TIMELINE view has rows, with the loop's draw step fair      *)

\* line 880: the rows left for agent tracks under the three pinned rows
agent_rows(h) == IF h - 3 > 1 THEN h - 3 ELSE 1

\* the running agents of the session shown: at least two, so that a panel of
\* PanelHeights has fewer track rows than tracks
ScrollRunningLists == {r \in OrdinalRunningLists : Len(r) > agent_rows(4)}

\* the state after the first draw in tree view (lines 2777-2786) and one Tab
\* (lines 2791-2796): the TIMELINE view with the detail panel focused, the
\* cursor and the scroll offset reset, the tree's timeline as it was last built
InitScroll ==
    /\ session_prompts = <<PromptRow(2)>>
    /\ session_tools = <<>>
    /\ \E r \in ScrollRunningLists : r_agents = WithIds(r, 0)
    /\ c_agents = <<>>
    /\ items = <<SessionItem>>
    /\ visible_items = items
    /\ selected = 0
    /\ focus = "right"
    /\ viz_mode = 1
    /\ game_of_life = FALSE
    /\ tree_cursor = 0
    /\ detail_scroll = 0
    /\ expanded_tool = -1
    /\ collapsed_prompts = {}
    /\ collapsed_agents = {}
    /\ tree_timeline = build_timeline(session_prompts, session_tools, r_agents,
                                      c_agents, 1, {}, {}).timeline
    /\ layout = "wide"
    /\ panel_h \in PanelHeights
    /\ pc = "draw"
    /\ result = NoResult
    /\ hist = <<>>
    /\ now_utc = 0
    /\ NoStore

NextScroll ==
    \/ Draw
    \/ KeyNone
    \/ KeyDown
    \/ KeyUp

\* the loop draws after every key or timeout (line 2786), so a draw that is due
\* is not put off for ever; the user the claim is about presses j/down again and
\* again, so getch() returns that key infinitely often (lines 2787, 2816)
SpecScroll == InitScroll /\ [][NextScroll]_vars /\ WF_vars(Draw) /\ SF_vars(KeyDown)

\* the TIMELINE view is on screen with the detail panel focused
GanttFocused == viz_name(viz_mode) = "gantt" /\ focus = "right"

\* lines 885-888: the last agent track is among the visible tracks
LastTrackShown ==
    /\ pc = "key"
    /\ GanttFocused
    /\ detail_scroll + agent_rows(panel_h)
          >= Len(gantt_tracks(r_agents, c_agents, target_sid(visible_items, selected)))

\* C30: in the TIMELINE (gantt) view with the detail panel focused, when a
\* session has more agent tracks than visible rows, repeated j/down key presses
\* raise the scroll offset so that every agent track can eventually be shown:
\* with the view on the TIMELINE and j/down pressed again and again, the last
\* track is eventually among the visible ones.
C30_DownScrollsTracks == <>LastTrackShown

====
